---------------------------- MODULE Spec2Model ----------------------------
(***************************************************************************)
(* A model of the storage client of src/src/client.rs.                     *)
(*                                                                         *)
(* A string is a sequence of characters, a character being a one-character *)
(* TLA+ string (a non-ASCII character is named by its code point, such as  *)
(* "U+FFFD").  A header map is a function from lower-case header names to  *)
(* header values.  A JSON document is a tagged record.  One call of a      *)
(* network operation is three steps, split at its two awaits: the          *)
(* operation's action builds the headers and the payload and sends the     *)
(* request, a Status action delivers the response with its status, and a   *)
(* Respond action reads the body and maps status and body to the call's    *)
(* result.                                                                 *)
(***************************************************************************)
EXTENDS Integers, Sequences, FiniteSets, TLC

VARIABLES
    client,     \* the StorageClient value, or NoClient
    ctor,       \* the project_url and api_key the client was constructed from
    pc,         \* "idle", "awaiting" (a request is in flight), "reading" (the
                \* status is in, the body is awaited), "done", "panicked"
    call,       \* the operation called last and its arguments
    sent,       \* the requests the last call has issued, in order
    resp,       \* what came back for the last request
    result,     \* what the last call returned
    server,     \* the buckets and objects the storage service holds
    tasks       \* the calls made concurrently on the client, one per caller

vars == <<client, ctor, pc, call, sent, resp, result, server, tasks>>

----------------------------------------------------------------------------
(* Bounds of the model.                                                    *)

\* How many default headers a client may carry.
MaxDefaultHeaders == 2
\* Durations of FileOptions.cache_control range over 0 .. MaxCacheSecs seconds.
MaxCacheSecs == 10

\* How many pieces a URL given to extract_token is made of, at most.
MaxUrlAtoms == 4

----------------------------------------------------------------------------
(* Option and Result.                                                      *)

None == [some |-> FALSE]
Some(x) == [some |-> TRUE, v |-> x]
UnwrapOr(o, d) == IF o.some THEN o.v ELSE d

Ok(x) == [ok |-> TRUE, v |-> x]
Err(e) == [ok |-> FALSE, e |-> e]

\* The variants of errors::Error the client constructs.
StorageError(status, message) ==
    [kind |-> "StorageError", status |-> status, message |-> message]
InvalidEnvironmentVariable(why) ==
    [kind |-> "InvalidEnvironmentVariable", why |-> why]
InvalidHeaderValue == [kind |-> "InvalidHeaderValue"]
RequestError == [kind |-> "RequestError"]
SerdeError == [kind |-> "SerdeError"]

----------------------------------------------------------------------------
(* Strings.                                                                *)

\* The bytes 32 .. 126, in order (the backquote, byte 96, by its code point).
ASCII ==
    <<" ", "!", "\"", "#", "$", "%", "&", "'", "(", ")", "*", "+", ",", "-",
      ".", "/", "0", "1", "2", "3", "4", "5", "6", "7", "8", "9", ":", ";",
      "<", "=", ">", "?", "@", "A", "B", "C", "D", "E", "F", "G", "H", "I",
      "J", "K", "L", "M", "N", "O", "P", "Q", "R", "S", "T", "U", "V", "W",
      "X", "Y", "Z", "[", "\\", "]", "^", "_", "U+0060", "a", "b", "c", "d", "e",
      "f", "g", "h", "i", "j", "k", "l", "m", "n", "o", "p", "q", "r", "s",
      "t", "u", "v", "w", "x", "y", "z", "{", "|", "}", "~">>

VisibleAscii == {ASCII[i] : i \in 1..Len(ASCII)}

\* The bytes 0 .. 31, in order, and the byte 127.
C0_CONTROLS ==
    <<"U+0000", "U+0001", "U+0002", "U+0003", "U+0004", "U+0005", "U+0006",
      "U+0007", "U+0008", "\t", "\n", "U+000B", "\f", "\r", "U+000E",
      "U+000F", "U+0010", "U+0011", "U+0012", "U+0013", "U+0014", "U+0015",
      "U+0016", "U+0017", "U+0018", "U+0019", "U+001A", "U+001B", "U+001C",
      "U+001D", "U+001E", "U+001F">>
DEL == "U+007F"

Controls == {C0_CONTROLS[i] : i \in 1..Len(C0_CONTROLS)} \cup {DEL}

\* char::is_ascii: every other character is longer than a byte in UTF-8.
AsciiChars == VisibleAscii \cup Controls
is_ascii(c) == c \in AsciiChars

Digits == <<"0", "1", "2", "3", "4", "5", "6", "7", "8", "9">>

\* format!("{}", n) of an unsigned integer.
RECURSIVE FormatU64(_)
FormatU64(n) ==
    IF n < 10 THEN <<Digits[n + 1]>>
    ELSE FormatU64(n \div 10) \o <<Digits[(n % 10) + 1]>>

HEADER_API_KEY == "apikey"
AUTHORIZATION == "authorization"
CONTENT_TYPE == "content-type"
CACHE_CONTROL == "cache-control"
X_UPSERT == "x-upsert"

STORAGE_V1 == <<"/", "s", "t", "o", "r", "a", "g", "e", "/", "v", "1">>
BEARER == <<"B", "e", "a", "r", "e", "r", " ">>
APPLICATION_JSON ==
    <<"a", "p", "p", "l", "i", "c", "a", "t", "i", "o", "n", "/",
      "j", "s", "o", "n">>

----------------------------------------------------------------------------
(* Headers.                                                                *)

EmptyHeaders == [n \in {} |-> <<>>]

\* HeaderMap::insert: the value of name n becomes v, whatever it was.
HeaderMapInsert(h, n, v) ==
    [x \in (DOMAIN h) \cup {n} |-> IF x = n THEN v ELSE h[x]]

\* HeaderValue::from_str accepts the tab and every byte from 32 on but 127:
\* visible ASCII, and the bytes of a character that is not ASCII.
IsLegalHeaderValue(s) ==
    \A i \in 1..Len(s) : s[i] = "\t" \/ s[i] \notin Controls

\* An insert that leaves out a value that is no legal header value.
TryInsert_lenient(rh, n, v) ==
    IF ~rh.ok THEN rh
    ELSE IF IsLegalHeaderValue(v) THEN Ok(HeaderMapInsert(rh.v, n, v))
    ELSE rh

\* headers.insert(n, HeaderValue::from_str(v)?) on a header map that earlier
\* steps may already have failed to build.
TryInsert(rh, n, v) ==
    IF ~rh.ok THEN rh
    ELSE IF IsLegalHeaderValue(v) THEN Ok(HeaderMapInsert(rh.v, n, v))
    ELSE Err(InvalidHeaderValue)

\* The credential alone, without the "Bearer " scheme.
BearerOf_NoScheme(api_key) == api_key

\* format!("Bearer {}", &self.api_key)
BearerOf(api_key) == BEARER \o api_key

\* The Bearer value inserted whether or not Authorization is there already.
AuthAlways(rh, c) == TryInsert(rh, AUTHORIZATION, BearerOf(c.api_key))

\* if !headers.contains_key(AUTHORIZATION) { headers.insert(AUTHORIZATION, ..) }
AuthIfAbsent(rh, c) ==
    IF ~rh.ok THEN rh
    ELSE IF AUTHORIZATION \in DOMAIN rh.v THEN rh
    ELSE TryInsert(rh, AUTHORIZATION, BearerOf(c.api_key))

----------------------------------------------------------------------------
(* JSON documents and serde_json::from_str.                                *)

JNull == [t |-> "null"]
JBool(b) == [t |-> "bool", b |-> b]
JNum(n) == [t |-> "num", n |-> n]
JStr(s) == [t |-> "str", s |-> s]
JArr(a) == [t |-> "arr", a |-> a]
JObj(o) == [t |-> "obj", o |-> o]
\* A body that is no JSON document at all.
Text(x) == [t |-> "text", x |-> x]

\* The Rust types the responses are deserialized into.
StringT == [k |-> "String"]
BoolT == [k |-> "bool"]
\* i32 and i64: every integer of the model is within both.
IntT == [k |-> "int"]
ValueT == [k |-> "Value"]
OptionT(of) == [k |-> "Option", of |-> of]
VecT(of) == [k |-> "Vec", of |-> of]
StructT(fields) == [k |-> "Struct", fields |-> fields]
\* A field of a struct: its Rust name, its JSON key (serde rename) and type.
Field(name, key, ty) == [name |-> name, key |-> key, ty |-> ty]

\* What #[derive(Deserialize)] and serde_json accept for a type: a struct
\* from an object holding every field that is not an Option (other keys are
\* ignored), or from an array of exactly its fields in order.
RECURSIVE Deserializes(_, _)
Deserializes(ty, j) ==
    CASE ty.k = "String" -> j.t = "str"
      [] ty.k = "bool" -> j.t = "bool"
      [] ty.k = "int" -> j.t = "num"
      [] ty.k = "Value" -> j.t # "text"
      [] ty.k = "Option" -> j.t = "null" \/ Deserializes(ty.of, j)
      [] ty.k = "Vec" ->
            /\ j.t = "arr"
            /\ \A i \in 1..Len(j.a) : Deserializes(ty.of, j.a[i])
      [] ty.k = "Struct" ->
            \/ /\ j.t = "obj"
               /\ \A i \in 1..Len(ty.fields) :
                    IF ty.fields[i].key \in DOMAIN j.o
                    THEN Deserializes(ty.fields[i].ty, j.o[ty.fields[i].key])
                    ELSE ty.fields[i].ty.k = "Option"
            \/ /\ j.t = "arr"
               /\ Len(j.a) = Len(ty.fields)
               /\ \A i \in 1..Len(ty.fields) :
                    Deserializes(ty.fields[i].ty, j.a[i])

\* The value a document deserializes into (given that it does).
RECURSIVE Deserialized(_, _)
Deserialized(ty, j) ==
    CASE ty.k = "String" -> j.s
      [] ty.k = "bool" -> j.b
      [] ty.k = "int" -> j.n
      [] ty.k = "Value" -> j
      [] ty.k = "Option" ->
            IF j.t = "null" THEN None ELSE Some(Deserialized(ty.of, j))
      [] ty.k = "Vec" -> [i \in 1..Len(j.a) |-> Deserialized(ty.of, j.a[i])]
      [] ty.k = "Struct" ->
            [n \in {ty.fields[i].name : i \in 1..Len(ty.fields)} |->
                LET i == CHOOSE i \in 1..Len(ty.fields) : ty.fields[i].name = n
                    f == ty.fields[i]
                IN  IF j.t = "arr" THEN Deserialized(f.ty, j.a[i])
                    ELSE IF f.key \in DOMAIN j.o
                         THEN Deserialized(f.ty, j.o[f.key])
                         ELSE None]

\* serde_json::from_str::<ty>(&res_body)
FromStr(ty, body) ==
    IF Deserializes(ty, body) THEN Ok(Deserialized(ty, body))
    ELSE Err(SerdeError)

\* A from_str whose error is passed on as it is ("?" without map_err).
FromStrOrSerdeError(ty, res_status, res_body) == FromStr(ty, res_body)

\* A from_str that is tried only when the status is 2xx.
FromStrWhenSuccess(ty, res_status, res_body) ==
    IF res_status >= 200 /\ res_status <= 299 /\ FromStr(ty, res_body).ok
    THEN FromStr(ty, res_body)
    ELSE Err(StorageError(res_status, res_body))

\* serde_json::from_str(&res_body).map_err(|_| Error::StorageError {
\*     status: res_status, message: res_body })
FromStrOrStorageError(ty, res_status, res_body) ==
    LET parsed == FromStr(ty, res_body)
    IN  IF parsed.ok THEN parsed
        ELSE Err(StorageError(res_status, res_body))

CreateBucketResponseT == StructT(<<Field("name", "name", StringT)>>)
BucketResponseT == StructT(<<Field("message", "message", StringT)>>)
BucketT ==
    StructT(<<Field("id", "id", StringT),
              Field("name", "name", StringT),
              Field("owner", "owner", StringT),
              Field("public", "public", BoolT),
              Field("file_size_limit", "file_size_limit", OptionT(IntT)),
              Field("allowed_mime_types", "allowed_mime_types",
                    OptionT(VecT(StringT))),
              Field("created_at", "created_at", StringT),
              Field("updated_at", "updated_at", StringT)>>)
BucketsT == VecT(BucketT)
ObjectResponseT ==
    StructT(<<Field("id", "Id", StringT), Field("key", "Key", StringT)>>)
MetadataT ==
    StructT(<<Field("etag", "eTag", StringT),
              Field("size", "size", IntT),
              Field("mimetype", "mimetype", StringT),
              Field("cache_control", "cacheControl", StringT),
              Field("last_modified", "lastModified", StringT),
              Field("content_length", "contentLength", IntT),
              Field("http_status_code", "httpStatusCode", IntT)>>)
FileObjectT ==
    StructT(<<Field("name", "name", StringT),
              Field("id", "id", StringT),
              Field("updated_at", "updated_at", StringT),
              Field("created_at", "created_at", StringT),
              Field("last_accessed_at", "last_accessed_at", StringT),
              Field("metadata", "metadata", MetadataT),
              Field("bucket_id", "bucket_id", OptionT(StringT)),
              Field("owner", "owner", OptionT(StringT)),
              Field("buckets", "buckets", OptionT(ValueT))>>)
CopyFileResponseT == StructT(<<Field("key", "Key", StringT)>>)
SignedUrlResponseT == StructT(<<Field("signed_url", "signedURL", StringT)>>)
SignedUploadUrlResponseT == StructT(<<Field("url", "url", StringT)>>)
UploadToSignedUrlResponseT == StructT(<<Field("key", "Key", StringT)>>)

----------------------------------------------------------------------------
(* models.rs: MimeType, FileOptions, DownloadOptions.                      *)

\* MimeType::as_str
as_str(mime) ==
    CASE mime.variant = "AAC" ->
            <<"a", "u", "d", "i", "o", "/", "a", "a", "c">>
      [] mime.variant = "AbiWord" ->
            <<"a", "p", "p", "l", "i", "c", "a", "t", "i", "o", "n",
            "/", "x", "-", "a", "b", "i", "w", "o", "r", "d">>
      [] mime.variant = "APNG" ->
            <<"i", "m", "a", "g", "e", "/", "a", "p", "n", "g">>
      [] mime.variant = "Archive" ->
            <<"a", "p", "p", "l", "i", "c", "a", "t", "i", "o", "n",
            "/", "x", "-", "f", "r", "e", "e", "a", "r", "c">>
      [] mime.variant = "AVIF" ->
            <<"i", "m", "a", "g", "e", "/", "a", "v", "i", "f">>
      [] mime.variant = "AVI" ->
            <<"v", "i", "d", "e", "o", "/", "x", "-", "m", "s", "v",
            "i", "d", "e", "o">>
      [] mime.variant = "AmazonKindle" ->
            <<"a", "p", "p", "l", "i", "c", "a", "t", "i", "o", "n",
            "/", "v", "n", "d", ".", "a", "m", "a", "z", "o", "n", ".",
            "e", "b", "o", "o", "k">>
      [] mime.variant = "BinaryData" ->
            <<"a", "p", "p", "l", "i", "c", "a", "t", "i", "o", "n",
            "/", "o", "c", "t", "e", "t", "-", "s", "t", "r", "e", "a",
            "m">>
      [] mime.variant = "BMP" ->
            <<"i", "m", "a", "g", "e", "/", "b", "m", "p">>
      [] mime.variant = "BZip" ->
            <<"a", "p", "p", "l", "i", "c", "a", "t", "i", "o", "n",
            "/", "x", "-", "b", "z", "i", "p">>
      [] mime.variant = "BZip2" ->
            <<"a", "p", "p", "l", "i", "c", "a", "t", "i", "o", "n",
            "/", "x", "-", "b", "z", "i", "p", "2">>
      [] mime.variant = "CDAudio" ->
            <<"a", "p", "p", "l", "i", "c", "a", "t", "i", "o", "n",
            "/", "x", "-", "c", "d", "f">>
      [] mime.variant = "CShellScript" ->
            <<"a", "p", "p", "l", "i", "c", "a", "t", "i", "o", "n",
            "/", "x", "-", "c", "s", "h">>
      [] mime.variant = "CSS" ->
            <<"t", "e", "x", "t", "/", "c", "s", "s">>
      [] mime.variant = "CSV" ->
            <<"t", "e", "x", "t", "/", "c", "s", "v">>
      [] mime.variant = "DOC" ->
            <<"a", "p", "p", "l", "i", "c", "a", "t", "i", "o", "n",
            "/", "m", "s", "w", "o", "r", "d">>
      [] mime.variant = "DOCX" ->
            <<"a", "p", "p", "l", "i", "c", "a", "t", "i", "o", "n",
            "/", "v", "n", "d", ".", "o", "p", "e", "n", "x", "m", "l",
            "f", "o", "r", "m", "a", "t", "s", "-", "o", "f", "f", "i",
            "c", "e", "d", "o", "c", "u", "m", "e", "n", "t", ".", "w",
            "o", "r", "d", "p", "r", "o", "c", "e", "s", "s", "i", "n",
            "g", "m", "l", ".", "d", "o", "c", "u", "m", "e", "n", "t">>
      [] mime.variant = "EOT" ->
            <<"a", "p", "p", "l", "i", "c", "a", "t", "i", "o", "n",
            "/", "v", "n", "d", ".", "m", "s", "-", "f", "o", "n", "t",
            "o", "b", "j", "e", "c", "t">>
      [] mime.variant = "EPUB" ->
            <<"a", "p", "p", "l", "i", "c", "a", "t", "i", "o", "n",
            "/", "e", "p", "u", "b", "+", "z", "i", "p">>
      [] mime.variant = "GZip" ->
            <<"a", "p", "p", "l", "i", "c", "a", "t", "i", "o", "n",
            "/", "g", "z", "i", "p">>
      [] mime.variant = "GIF" ->
            <<"i", "m", "a", "g", "e", "/", "g", "i", "f">>
      [] mime.variant = "HTML" ->
            <<"t", "e", "x", "t", "/", "h", "t", "m", "l">>
      [] mime.variant = "Icon" ->
            <<"i", "m", "a", "g", "e", "/", "v", "n", "d", ".", "m",
            "i", "c", "r", "o", "s", "o", "f", "t", ".", "i", "c", "o",
            "n">>
      [] mime.variant = "ICalendar" ->
            <<"t", "e", "x", "t", "/", "c", "a", "l", "e", "n", "d",
            "a", "r">>
      [] mime.variant = "JAR" ->
            <<"a", "p", "p", "l", "i", "c", "a", "t", "i", "o", "n",
            "/", "j", "a", "v", "a", "-", "a", "r", "c", "h", "i", "v",
            "e">>
      [] mime.variant = "JPEG" ->
            <<"i", "m", "a", "g", "e", "/", "j", "p", "e", "g">>
      [] mime.variant = "JavaScript" ->
            <<"t", "e", "x", "t", "/", "j", "a", "v", "a", "s", "c",
            "r", "i", "p", "t">>
      [] mime.variant = "JSON" ->
            <<"a", "p", "p", "l", "i", "c", "a", "t", "i", "o", "n",
            "/", "j", "s", "o", "n">>
      [] mime.variant = "JSONLD" ->
            <<"a", "p", "p", "l", "i", "c", "a", "t", "i", "o", "n",
            "/", "l", "d", "+", "j", "s", "o", "n">>
      [] mime.variant = "MIDI" ->
            <<"a", "u", "d", "i", "o", "/", "m", "i", "d", "i">>
      [] mime.variant = "JavaScriptModule" ->
            <<"t", "e", "x", "t", "/", "j", "a", "v", "a", "s", "c",
            "r", "i", "p", "t">>
      [] mime.variant = "MP3" ->
            <<"a", "u", "d", "i", "o", "/", "m", "p", "e", "g">>
      [] mime.variant = "MP4" ->
            <<"v", "i", "d", "e", "o", "/", "m", "p", "4">>
      [] mime.variant = "MPEG" ->
            <<"v", "i", "d", "e", "o", "/", "m", "p", "e", "g">>
      [] mime.variant = "AppleInstaller" ->
            <<"a", "p", "p", "l", "i", "c", "a", "t", "i", "o", "n",
            "/", "v", "n", "d", ".", "a", "p", "p", "l", "e", ".", "i",
            "n", "s", "t", "a", "l", "l", "e", "r", "+", "x", "m", "l">>
      [] mime.variant = "ODP" ->
            <<"a", "p", "p", "l", "i", "c", "a", "t", "i", "o", "n",
            "/", "v", "n", "d", ".", "o", "a", "s", "i", "s", ".", "o",
            "p", "e", "n", "d", "o", "c", "u", "m", "e", "n", "t", ".",
            "p", "r", "e", "s", "e", "n", "t", "a", "t", "i", "o", "n">>
      [] mime.variant = "ODS" ->
            <<"a", "p", "p", "l", "i", "c", "a", "t", "i", "o", "n",
            "/", "v", "n", "d", ".", "o", "a", "s", "i", "s", ".", "o",
            "p", "e", "n", "d", "o", "c", "u", "m", "e", "n", "t", ".",
            "s", "p", "r", "e", "a", "d", "s", "h", "e", "e", "t">>
      [] mime.variant = "ODT" ->
            <<"a", "p", "p", "l", "i", "c", "a", "t", "i", "o", "n",
            "/", "v", "n", "d", ".", "o", "a", "s", "i", "s", ".", "o",
            "p", "e", "n", "d", "o", "c", "u", "m", "e", "n", "t", ".",
            "t", "e", "x", "t">>
      [] mime.variant = "OggAudio" ->
            <<"a", "u", "d", "i", "o", "/", "o", "g", "g">>
      [] mime.variant = "OggVideo" ->
            <<"v", "i", "d", "e", "o", "/", "o", "g", "g">>
      [] mime.variant = "Ogg" ->
            <<"a", "p", "p", "l", "i", "c", "a", "t", "i", "o", "n",
            "/", "o", "g", "g">>
      [] mime.variant = "OpusAudio" ->
            <<"a", "u", "d", "i", "o", "/", "o", "g", "g">>
      [] mime.variant = "OTF" ->
            <<"f", "o", "n", "t", "/", "o", "t", "f">>
      [] mime.variant = "PNG" ->
            <<"i", "m", "a", "g", "e", "/", "p", "n", "g">>
      [] mime.variant = "PDF" ->
            <<"a", "p", "p", "l", "i", "c", "a", "t", "i", "o", "n",
            "/", "p", "d", "f">>
      [] mime.variant = "PHP" ->
            <<"a", "p", "p", "l", "i", "c", "a", "t", "i", "o", "n",
            "/", "x", "-", "h", "t", "t", "p", "d", "-", "p", "h", "p">>
      [] mime.variant = "PPT" ->
            <<"a", "p", "p", "l", "i", "c", "a", "t", "i", "o", "n",
            "/", "v", "n", "d", ".", "m", "s", "-", "p", "o", "w", "e",
            "r", "p", "o", "i", "n", "t">>
      [] mime.variant = "PPTX" ->
            <<"a", "p", "p", "l", "i", "c", "a", "t", "i", "o", "n",
            "/", "v", "n", "d", ".", "o", "p", "e", "n", "x", "m", "l",
            "f", "o", "r", "m", "a", "t", "s", "-", "o", "f", "f", "i",
            "c", "e", "d", "o", "c", "u", "m", "e", "n", "t", ".", "p",
            "r", "e", "s", "e", "n", "t", "a", "t", "i", "o", "n", "m",
            "l", ".", "p", "r", "e", "s", "e", "n", "t", "a", "t", "i",
            "o", "n">>
      [] mime.variant = "RAR" ->
            <<"a", "p", "p", "l", "i", "c", "a", "t", "i", "o", "n",
            "/", "v", "n", "d", ".", "r", "a", "r">>
      [] mime.variant = "RTF" ->
            <<"a", "p", "p", "l", "i", "c", "a", "t", "i", "o", "n",
            "/", "r", "t", "f">>
      [] mime.variant = "ShellScript" ->
            <<"a", "p", "p", "l", "i", "c", "a", "t", "i", "o", "n",
            "/", "x", "-", "s", "h">>
      [] mime.variant = "SVG" ->
            <<"i", "m", "a", "g", "e", "/", "s", "v", "g", "+", "x",
            "m", "l">>
      [] mime.variant = "TAR" ->
            <<"a", "p", "p", "l", "i", "c", "a", "t", "i", "o", "n",
            "/", "x", "-", "t", "a", "r">>
      [] mime.variant = "TIFF" ->
            <<"i", "m", "a", "g", "e", "/", "t", "i", "f", "f">>
      [] mime.variant = "MPEGTransportStream" ->
            <<"v", "i", "d", "e", "o", "/", "m", "p", "2", "t">>
      [] mime.variant = "TTF" ->
            <<"f", "o", "n", "t", "/", "t", "t", "f">>
      [] mime.variant = "PlainText" ->
            <<"t", "e", "x", "t", "/", "p", "l", "a", "i", "n">>
      [] mime.variant = "Visio" ->
            <<"a", "p", "p", "l", "i", "c", "a", "t", "i", "o", "n",
            "/", "v", "n", "d", ".", "v", "i", "s", "i", "o">>
      [] mime.variant = "WAV" ->
            <<"a", "u", "d", "i", "o", "/", "w", "a", "v">>
      [] mime.variant = "WEBMAudio" ->
            <<"a", "u", "d", "i", "o", "/", "w", "e", "b", "m">>
      [] mime.variant = "WEBMVideo" ->
            <<"v", "i", "d", "e", "o", "/", "w", "e", "b", "m">>
      [] mime.variant = "WEBP" ->
            <<"i", "m", "a", "g", "e", "/", "w", "e", "b", "p">>
      [] mime.variant = "WOFF" ->
            <<"f", "o", "n", "t", "/", "w", "o", "f", "f">>
      [] mime.variant = "WOFF2" ->
            <<"f", "o", "n", "t", "/", "w", "o", "f", "f", "2">>
      [] mime.variant = "XHTML" ->
            <<"a", "p", "p", "l", "i", "c", "a", "t", "i", "o", "n",
            "/", "x", "h", "t", "m", "l", "+", "x", "m", "l">>
      [] mime.variant = "XLS" ->
            <<"a", "p", "p", "l", "i", "c", "a", "t", "i", "o", "n",
            "/", "v", "n", "d", ".", "m", "s", "-", "e", "x", "c", "e",
            "l">>
      [] mime.variant = "XLSX" ->
            <<"a", "p", "p", "l", "i", "c", "a", "t", "i", "o", "n",
            "/", "v", "n", "d", ".", "o", "p", "e", "n", "x", "m", "l",
            "f", "o", "r", "m", "a", "t", "s", "-", "o", "f", "f", "i",
            "c", "e", "d", "o", "c", "u", "m", "e", "n", "t", ".", "s",
            "p", "r", "e", "a", "d", "s", "h", "e", "e", "t", "m", "l",
            ".", "s", "h", "e", "e", "t">>
      [] mime.variant = "XML" ->
            <<"a", "p", "p", "l", "i", "c", "a", "t", "i", "o", "n",
            "/", "x", "m", "l">>
      [] mime.variant = "XUL" ->
            <<"a", "p", "p", "l", "i", "c", "a", "t", "i", "o", "n",
            "/", "v", "n", "d", ".", "m", "o", "z", "i", "l", "l", "a",
            ".", "x", "u", "l", "+", "x", "m", "l">>
      [] mime.variant = "ZIP" ->
            <<"a", "p", "p", "l", "i", "c", "a", "t", "i", "o", "n",
            "/", "z", "i", "p">>
      [] mime.variant = "ThreeGPP" ->
            <<"v", "i", "d", "e", "o", "/", "3", "g", "p", "p">>
      [] mime.variant = "ThreeGPP2" ->
            <<"v", "i", "d", "e", "o", "/", "3", "g", "p", "p", "2">>
      [] mime.variant = "SevenZip" ->
            <<"a", "p", "p", "l", "i", "c", "a", "t", "i", "o", "n",
            "/", "x", "-", "7", "z", "-", "c", "o", "m", "p", "r", "e",
            "s", "s", "e", "d">>
      [] mime.variant = "Custom" -> mime.s

\* The Debug form of the custom variant in place of its string.
to_string_debug(mime) ==
    IF mime.variant = "Custom" THEN <<"C", "u", "s", "t", "o", "m">>
    ELSE as_str(mime)

\* impl fmt::Display for MimeType: write!(f, "{}", self.as_str())
to_string(mime) == as_str(mime)

\* impl From<MimeType> for String: mime.to_string()
String_from(mime) == to_string(mime)

\* Duration::as_secs: the whole seconds of a duration.
as_secs(d) == d.secs

\* format!("{}", b) of a bool.
FormatBool(b) ==
    IF b THEN <<"t", "r", "u", "e">> ELSE <<"f", "a", "l", "s", "e">>

----------------------------------------------------------------------------
(* The client value and its construction.                                  *)

NoClient == [live |-> FALSE]

\* StorageClient::new
new(project_url, api_key) ==
    [live |-> TRUE, project_url |-> project_url, api_key |-> api_key,
     headers |-> EmptyHeaders]

\* std::env::var(name) in environment env: a variable is not set, set to
\* something that is not Unicode, or set to a string.
EnvVar(env, name) ==
    IF env[name].is = "String" THEN Ok(env[name].v)
    ELSE Err(InvalidEnvironmentVariable(env[name].is))

\* The two variables read into each other's field.
new_from_env_swapped(env) ==
    LET project_url == EnvVar(env, "SUPABASE_URL")
        api_key == EnvVar(env, "SUPABASE_API_KEY")
    IN  IF ~project_url.ok THEN project_url
        ELSE IF ~api_key.ok THEN api_key
        ELSE Ok([live |-> TRUE, project_url |-> api_key.v,
                 api_key |-> project_url.v, headers |-> EmptyHeaders])

\* StorageClient::new_from_env
new_from_env(env) ==
    LET project_url == EnvVar(env, "SUPABASE_URL")
        api_key == EnvVar(env, "SUPABASE_API_KEY")
    IN  IF ~project_url.ok THEN project_url
        ELSE IF ~api_key.ok THEN api_key
        ELSE Ok([live |-> TRUE, project_url |-> project_url.v,
                 api_key |-> api_key.v, headers |-> EmptyHeaders])

\* The header inserted into an empty map instead of the client's.
insert_header_fresh(self, header_name, header_value) ==
    IF IsLegalHeaderValue(header_value)
    THEN [panic |-> FALSE,
          v |-> [self EXCEPT !.headers =
                    HeaderMapInsert(EmptyHeaders, header_name, header_value)]]
    ELSE [panic |-> TRUE]

\* StorageClient::insert_header: the updated client, or a panic (the expect
\* on HeaderValue::from_str).
Panic == [panic |-> TRUE]
insert_header(self, header_name, header_value) ==
    IF IsLegalHeaderValue(header_value)
    THEN [panic |-> FALSE,
          v |-> [self EXCEPT !.headers =
                    HeaderMapInsert(self.headers, header_name, header_value)]]
    ELSE Panic

----------------------------------------------------------------------------
(* URLs: url::Url and form_urlencoded.  Url::parse is modelled for the     *)
(* inputs whose host is ASCII and has no punycode label (an IPv6 address   *)
(* between square brackets is parsed and written in its canonical form).   *)
(* A path segment that starts with a Windows drive letter stays before a   *)
(* ".." segment in a URL of any scheme; what the file scheme alone does    *)
(* with a drive letter ("C|" written "C:", a drive letter where the host   *)
(* stands) is not modelled.                                                *)

UrlParseError == [kind |-> "UrlParseError"]

HexDigits ==
    <<"0", "1", "2", "3", "4", "5", "6", "7", "8", "9", "A", "B", "C", "D",
      "E", "F">>

Take(s, n) == SubSeq(s, 1, n)
Drop(s, n) == SubSeq(s, n + 1, Len(s))

\* The first position of s from i on that holds a character of cs (when
\* member) or one outside cs (when not), Len(s) + 1 if none.
RECURSIVE Find(_, _, _, _)
Find(s, cs, member, i) ==
    IF i > Len(s) \/ (s[i] \in cs) = member THEN i
    ELSE Find(s, cs, member, i + 1)

\* The first position of s that holds a character of cs, Len(s) + 1 if none.
FirstIn(s, cs) == Find(s, cs, TRUE, 1)

\* The first position of s that holds a character outside cs.
FirstNotIn(s, cs) == Find(s, cs, FALSE, 1)

\* The last position of s up to i that holds a character outside cs, 0 if
\* none.
RECURSIVE LastNotIn(_, _, _)
LastNotIn(s, cs, i) ==
    IF i = 0 \/ s[i] \notin cs THEN i ELSE LastNotIn(s, cs, i - 1)

\* The strings between the characters of cs in s, in order.
RECURSIVE SplitAny(_, _)
SplitAny(s, cs) ==
    LET i == FirstIn(s, cs)
    IN  IF i > Len(s) THEN <<s>>
        ELSE <<Take(s, i - 1)>> \o SplitAny(Drop(s, i), cs)

AsciiUpper == {ASCII[i] : i \in 34..59}
AsciiLower == {ASCII[i] : i \in 66..91}
AsciiDigit == {ASCII[i] : i \in 17..26}
AsciiAlpha == AsciiUpper \cup AsciiLower

\* The byte of an ASCII character.
CodeOf(c) ==
    IF c \in VisibleAscii THEN 31 + CHOOSE i \in 1..Len(ASCII) : ASCII[i] = c
    ELSE IF c = DEL THEN 127
    ELSE (CHOOSE i \in 1..Len(C0_CONTROLS) : C0_CONTROLS[i] = c) - 1

\* char::to_ascii_lowercase
to_ascii_lowercase(c) == IF c \in AsciiUpper THEN ASCII[CodeOf(c) + 1] ELSE c

\* The value of a hexadecimal digit.
HexValue(c) ==
    IF c \in AsciiDigit THEN CodeOf(c) - 48
    ELSE IF c \in AsciiUpper THEN CodeOf(c) - 55
    ELSE CodeOf(c) - 87

is_ascii_hexdigit(c) ==
    c \in AsciiDigit \cup {"A", "B", "C", "D", "E", "F",
                           "a", "b", "c", "d", "e", "f"}

\* The UTF-8 bytes of the characters of the model that are not ASCII.
Utf8NonAscii ==
    [c \in {"U+00E9", "U+20AC", "U+FFFD"} |->
        CASE c = "U+00E9" -> <<195, 169>>
          [] c = "U+20AC" -> <<226, 130, 172>>
          [] c = "U+FFFD" -> <<239, 191, 189>>]

\* char::encode_utf8
Utf8(c) == IF is_ascii(c) THEN <<CodeOf(c)>> ELSE Utf8NonAscii[c]

\* percent_encoding: %XX of every byte, in upper-case hexadecimal.
RECURSIVE PercentEncodedBytes(_)
PercentEncodedBytes(b) ==
    IF b = <<>> THEN <<>>
    ELSE <<"%", HexDigits[(b[1] \div 16) + 1], HexDigits[(b[1] % 16) + 1]>>
            \o PercentEncodedBytes(Tail(b))

PercentEncoded(c) == PercentEncodedBytes(Utf8(c))

\* The AsciiSets of the url crate; CONTROLS is the set Controls.
FRAGMENT == Controls \cup {" ", "\"", "<", ">", "U+0060"}
PATH == FRAGMENT \cup {"#", "?", "{", "}"}
USERINFO == PATH \cup {"/", ":", ";", "=", "@", "[", "\\", "]", "^", "|"}
QUERY == Controls \cup {" ", "\"", "#", "<", ">"}
SPECIAL_QUERY == QUERY \cup {"'"}

\* utf8_percent_encode(s, set): the characters of the set and those that
\* are not ASCII become the %XX of their bytes.
RECURSIVE PercentEncodeEach(_, _)
PercentEncodeEach(s, set) ==
    IF s = <<>> THEN <<>>
    ELSE (IF s[1] \in set \/ ~is_ascii(s[1]) THEN PercentEncoded(s[1])
          ELSE <<s[1]>>)
            \o PercentEncodeEach(Tail(s), set)

utf8_percent_encode(s, set) ==
    IF \A i \in 1..Len(s) : s[i] \notin set /\ is_ascii(s[i]) THEN s
    ELSE PercentEncodeEach(s, set)

HTTP == <<"h", "t", "t", "p">>
HTTPS == <<"h", "t", "t", "p", "s">>
WS == <<"w", "s">>
WSS == <<"w", "s", "s">>
FTP == <<"f", "t", "p">>
FILE == <<"f", "i", "l", "e">>

\* SchemeType: the special schemes.
is_special(scheme) == scheme \in {HTTP, HTTPS, WS, WSS, FTP, FILE}

default_port(scheme) ==
    CASE scheme \in {HTTP, WS} -> Some(80)
      [] scheme \in {HTTPS, WSS} -> Some(443)
      [] scheme = FTP -> Some(21)
      [] OTHER -> None

\* Input::new: the C0 controls and spaces at both ends are trimmed, and every
\* tab and newline is skipped.
NoTabOrNewline(c) == c \notin {"\t", "\n", "\r"}
C0ControlOrSpace == (Controls \ {DEL}) \cup {" "}
Input(s) ==
    SelectSeq(SubSeq(s, FirstNotIn(s, C0ControlOrSpace),
                     LastNotIn(s, C0ControlOrSpace, Len(s))),
              NoTabOrNewline)

SchemeChars == AsciiUpper \cup AsciiLower \cup AsciiDigit \cup {"+", "-", "."}

\* Parser::parse_scheme: a letter, then letters, digits, "+", "-" and ".",
\* up to a ":"; the scheme in lower case and what follows the ":".
parse_scheme(input) ==
    LET k == FirstNotIn(input, SchemeChars)
    IN  IF \/ input = <<>>
           \/ input[1] \notin AsciiUpper \cup AsciiLower
           \/ k > Len(input)
           \/ input[k] # ":"
        THEN Err(UrlParseError)
        ELSE Ok([scheme |-> [i \in 1..(k - 1) |-> to_ascii_lowercase(input[i])],
                 rest |-> Drop(input, k)])

\* percent_decode, of escapes that stand for ASCII; the character U+FFFD
\* stands for every other byte.
RECURSIVE percent_decode(_)
percent_decode(s) ==
    IF s = <<>> THEN <<>>
    ELSE IF /\ s[1] = "%" /\ Len(s) >= 3
            /\ is_ascii_hexdigit(s[2]) /\ is_ascii_hexdigit(s[3])
    THEN LET b == 16 * HexValue(s[2]) + HexValue(s[3])
         IN  <<IF b >= 128 THEN "U+FFFD"
               ELSE IF b = 127 THEN DEL
               ELSE IF b < 32 THEN C0_CONTROLS[b + 1]
               ELSE ASCII[b - 31]>>
                \o percent_decode(Drop(s, 3))
    ELSE <<s[1]>> \o percent_decode(Tail(s))

\* The forbidden host code points, and the forbidden domain code points.
ForbiddenHost ==
    {"U+0000", "\t", "\n", "\r", " ", "#", "/", ":", "<", ">", "?", "@", "[",
     "\\", "]", "^", "|"}
ForbiddenDomain == ForbiddenHost \cup Controls \cup {"%"}

\* parse_ipv4number: the four bytes of a number written in decimal, in octal
\* (after a "0") or in hexadecimal (after "0x"); <<>> for a number that does
\* not fit in 32 bits, an error for what is no number.
RECURSIVE from_str_radix(_, _, _)
from_str_radix(s, r, acc) ==
    IF s = <<>> THEN acc
    ELSE LET t4 == acc[4] * r + HexValue(s[1])
             t3 == acc[3] * r + (t4 \div 256)
             t2 == acc[2] * r + (t3 \div 256)
             t1 == acc[1] * r + (t2 \div 256)
         IN  IF t1 > 255 THEN <<>>
             ELSE from_str_radix(Tail(s), r,
                                 <<t1, t2 % 256, t3 % 256, t4 % 256>>)

parse_ipv4number(input) ==
    LET hex == Len(input) >= 2 /\ input[1] = "0" /\ input[2] \in {"x", "X"}
        oct == ~hex /\ Len(input) >= 2 /\ input[1] = "0"
        r == IF hex THEN 16 ELSE IF oct THEN 8 ELSE 10
        digits == IF hex THEN Drop(input, 2)
                  ELSE IF oct THEN Drop(input, 1) ELSE input
        valid == \A i \in 1..Len(digits) :
                    IF r = 16 THEN is_ascii_hexdigit(digits[i])
                    ELSE IF r = 10 THEN digits[i] \in AsciiDigit
                    ELSE digits[i] \in {ASCII[k] : k \in 17..24}
    IN  IF input = <<>> \/ ~valid THEN Err(UrlParseError)
        ELSE Ok(from_str_radix(digits, r, <<0, 0, 0, 0>>))

\* ends_in_a_number: the last label of the domain (a last empty one aside)
\* is made of digits, or is a number of parse_ipv4number.
ends_in_a_number(domain) ==
    LET parts == SplitAny(domain, {"."})
        n == Len(parts)
        last == IF parts[n] = <<>> /\ n > 1 THEN parts[n - 1] ELSE parts[n]
    IN  /\ last # <<>>
        /\ \/ \A i \in 1..Len(last) : last[i] \in AsciiDigit
           \/ parse_ipv4number(last).ok

\* parse_ipv4addr, and the address in dotted decimal: every number but the
\* last is one byte, and the last fills the bytes that are left.
Ipv4Of(numbers) ==
    LET n == Len(numbers)
    IN  IF \/ n > 4
           \/ \E i \in 1..n : ~numbers[i].ok \/ numbers[i].v = <<>>
           \/ \E i \in 1..(n - 1) : numbers[n].v[i] # 0
           \/ \E i \in 1..(n - 1) : Take(numbers[i].v, 3) # <<0, 0, 0>>
        THEN Err(UrlParseError)
        ELSE Ok(FormatU64(IF 1 < n THEN numbers[1].v[4] ELSE numbers[n].v[1])
                    \o <<".">>
                    \o FormatU64(IF 2 < n THEN numbers[2].v[4]
                                 ELSE numbers[n].v[2])
                    \o <<".">>
                    \o FormatU64(IF 3 < n THEN numbers[3].v[4]
                                 ELSE numbers[n].v[3])
                    \o <<".">> \o FormatU64(numbers[n].v[4]))

Ipv4Parts(all) ==
    IF all[Len(all)] = <<>> THEN Take(all, Len(all) - 1) ELSE all

Ipv4Numbers(parts) == [i \in 1..Len(parts) |-> parse_ipv4number(parts[i])]

parse_ipv4addr(domain) ==
    Ipv4Of(Ipv4Numbers(Ipv4Parts(SplitAny(domain, {"."}))))

\* parse_ipv6addr: the eight pieces of an IPv6 address. Each piece is one to
\* four hexadecimal digits; one "::" stands for the pieces that are zero; the
\* last two pieces may be written as an IPv4 address in dotted decimal.
Ipv6Zero == [k \in 1..8 |-> 0]

\* The pieces, once the input is read: the ones behind the "::" go to the
\* end of the address; without a "::" there are eight of them.
Ipv6Finish(pieces, piece_pointer, compress) ==
    IF compress.some
    THEN Ok([k \in 1..8 |->
                IF k <= compress.v THEN pieces[k]
                ELSE IF k <= 8 - (piece_pointer - compress.v) THEN 0
                ELSE pieces[k - (8 - piece_pointer)]])
    ELSE IF piece_pointer # 8 THEN Err(UrlParseError)
    ELSE Ok(pieces)

\* The number of hexadecimal digits at position i, four at most.
RECURSIVE HexRun(_, _, _)
HexRun(input, i, n) ==
    IF n < 4 /\ i + n <= Len(input) /\ is_ascii_hexdigit(input[i + n])
    THEN HexRun(input, i, n + 1)
    ELSE n

\* The number of decimal digits at position i.
RECURSIVE DigitRun(_, _, _)
DigitRun(input, i, n) ==
    IF i + n <= Len(input) /\ input[i + n] \in AsciiDigit
    THEN DigitRun(input, i, n + 1)
    ELSE n

\* The number the digits write in radix r.
RECURSIVE NumberOf(_, _, _)
NumberOf(digits, r, acc) ==
    IF digits = <<>> THEN acc
    ELSE NumberOf(Tail(digits), r, acc * r + HexValue(digits[1]))

RECURSIVE Ipv6Pieces(_, _, _, _, _)
RECURSIVE Ipv4InIpv6(_, _, _, _, _, _)

\* One number of the IPv4 address that ends an IPv6 address: a byte, with no
\* zero before its digits; two of them make a piece.
Ipv4Piece(input, i, n, pieces, piece_pointer, compress, numbers_seen) ==
    IF \/ n = 0
       \/ n > 1 /\ input[i] = "0"
       \/ NumberOf(SubSeq(input, i, i + n - 1), 10, 0) > 255
    THEN Err(UrlParseError)
    ELSE Ipv4InIpv6(input, i + n,
            [pieces EXCEPT ![piece_pointer + 1] =
                @ * 256 + NumberOf(SubSeq(input, i, i + n - 1), 10, 0)],
            IF numbers_seen + 1 \in {2, 4} THEN piece_pointer + 1
            ELSE piece_pointer,
            compress, numbers_seen + 1)

Ipv4InIpv6(input, i, pieces, piece_pointer, compress, numbers_seen) ==
    IF i > Len(input)
    THEN IF numbers_seen # 4 THEN Err(UrlParseError)
         ELSE Ipv6Finish(pieces, piece_pointer, compress)
    ELSE IF numbers_seen > 0 /\ ~(numbers_seen < 4 /\ input[i] = ".")
    THEN Err(UrlParseError)
    ELSE Ipv4Piece(input, IF numbers_seen > 0 THEN i + 1 ELSE i,
                   DigitRun(input, IF numbers_seen > 0 THEN i + 1 ELSE i, 0),
                   pieces, piece_pointer, compress, numbers_seen)

\* The piece of n hexadecimal digits at position start: a "." behind it makes
\* it the start of an IPv4 address, which takes the last two pieces; a ":"
\* behind it is followed by more; nothing else may follow it.
Ipv6Piece(input, start, n, pieces, piece_pointer, compress) ==
    IF start + n <= Len(input) /\ input[start + n] = "."
    THEN IF n = 0 \/ piece_pointer > 6 THEN Err(UrlParseError)
         ELSE Ipv4InIpv6(input, start, pieces, piece_pointer, compress, 0)
    ELSE IF \/ start + n <= Len(input) /\ input[start + n] # ":"
            \/ start + n = Len(input)
    THEN Err(UrlParseError)
    ELSE Ipv6Pieces(input, start + n + 1,
            [pieces EXCEPT ![piece_pointer + 1] =
                NumberOf(SubSeq(input, start, start + n - 1), 16, 0)],
            piece_pointer + 1, compress)

Ipv6Pieces(input, i, pieces, piece_pointer, compress) ==
    IF i > Len(input) THEN Ipv6Finish(pieces, piece_pointer, compress)
    ELSE IF piece_pointer = 8 THEN Err(UrlParseError)
    ELSE IF input[i] = ":"
    THEN IF compress.some THEN Err(UrlParseError)
         ELSE Ipv6Pieces(input, i + 1, pieces, piece_pointer + 1,
                         Some(piece_pointer + 1))
    ELSE Ipv6Piece(input, i, HexRun(input, i, 0), pieces, piece_pointer,
                   compress)

parse_ipv6addr(input) ==
    IF Len(input) < 2 THEN Err(UrlParseError)
    ELSE IF input[1] = ":"
    THEN IF input[2] # ":" THEN Err(UrlParseError)
         ELSE Ipv6Pieces(input, 3, Ipv6Zero, 1, Some(1))
    ELSE Ipv6Pieces(input, 1, Ipv6Zero, 0, None)

\* longest_zero_sequence: the first of the longest runs of pieces that are
\* zero, from start up to end (end not included); a lone zero is no run.
RECURSIVE ZeroRun(_, _)
ZeroRun(pieces, i) ==
    IF i > 8 \/ pieces[i] # 0 THEN 0 ELSE 1 + ZeroRun(pieces, i + 1)

ZeroRuns(pieces) ==
    [i \in 1..8 |-> IF i > 1 /\ pieces[i - 1] = 0 THEN 0
                    ELSE ZeroRun(pieces, i)]

LongestOf(runs) ==
    CHOOSE i \in 1..8 :
        \A k \in 1..8 : runs[k] < runs[i] \/ (runs[k] = runs[i] /\ i <= k)

ZeroSequence(runs, longest) ==
    IF runs[longest] < 2 THEN [start |-> 0, end |-> 0]
    ELSE [start |-> longest, end |-> longest + runs[longest]]

longest_zero_sequence(pieces) ==
    ZeroSequence(ZeroRuns(pieces), LongestOf(ZeroRuns(pieces)))

\* A number in hexadecimal, in lower case ("{:x}").
LowerHexDigits ==
    <<"0", "1", "2", "3", "4", "5", "6", "7", "8", "9", "a", "b", "c", "d",
      "e", "f">>

RECURSIVE LowerHex(_)
LowerHex(n) ==
    IF n < 16 THEN <<LowerHexDigits[n + 1]>>
    ELSE LowerHex(n \div 16) \o <<LowerHexDigits[(n % 16) + 1]>>

\* write_ipv6: the pieces in hexadecimal with ":" between them, the longest
\* run of zeros written "::".
RECURSIVE Ipv6Text(_, _, _)
RECURSIVE Ipv6From(_, _, _)
Ipv6From(pieces, zeros, i) ==
    LowerHex(pieces[i]) \o (IF i < 8 THEN <<":">> ELSE <<>>)
        \o Ipv6Text(pieces, zeros, i + 1)

Ipv6Text(pieces, zeros, i) ==
    IF i > 8 THEN <<>>
    ELSE IF i = zeros.start
    THEN <<":">> \o (IF i = 1 THEN <<":">> ELSE <<>>)
            \o (IF zeros.end <= 8 THEN Ipv6From(pieces, zeros, zeros.end)
                ELSE <<>>)
    ELSE Ipv6From(pieces, zeros, i)

write_ipv6(pieces) == Ipv6Text(pieces, longest_zero_sequence(pieces), 1)

\* The host written between square brackets: an IPv6 address, in the form
\* the url crate writes it in.
Host_of_ipv6(address) ==
    IF ~address.ok THEN address
    ELSE Ok(<<"[">> \o write_ipv6(address.v) \o <<"]">>)

Host_ipv6(input) ==
    IF input[Len(input)] # "]" THEN Err(UrlParseError)
    ELSE Host_of_ipv6(parse_ipv6addr(SubSeq(input, 2, Len(input) - 1)))

\* Host::parse: the host of a URL with a special scheme: an IPv6 address
\* between square brackets, or a domain, which is the input percent-decoded
\* and in lower case.
DomainOf(decoded) ==
    [i \in 1..Len(decoded) |-> to_ascii_lowercase(decoded[i])]

Host_of_domain(domain) ==
    IF \/ domain = <<>>
       \/ \E i \in 1..Len(domain) :
             domain[i] \in ForbiddenDomain \/ ~is_ascii(domain[i])
    THEN Err(UrlParseError)
    ELSE IF ends_in_a_number(domain) THEN parse_ipv4addr(domain)
    ELSE Ok(domain)

Host_parse(input) ==
    IF input # <<>> /\ input[1] = "[" THEN Host_ipv6(input)
    ELSE Host_of_domain(DomainOf(percent_decode(input)))

\* Host::parse_opaque: the host of a URL with another scheme.
Host_parse_opaque(input) ==
    IF input # <<>> /\ input[1] = "[" THEN Host_ipv6(input)
    ELSE IF \E i \in 1..Len(input) : input[i] \in ForbiddenHost
    THEN Err(UrlParseError)
    ELSE Ok(utf8_percent_encode(input, Controls))

\* Parser::parse_port: the digits up to the end of the authority; a port
\* above 65535 and every other character are errors, and the default port
\* of the scheme is left out.
RECURSIVE PortNumber(_, _)
PortNumber(digits, port) ==
    IF digits = <<>> \/ port > 65535 THEN port
    ELSE PortNumber(Tail(digits), port * 10 + HexValue(digits[1]))

parse_port(input, scheme) ==
    LET n == FirstNotIn(input, AsciiDigit) - 1
        port == PortNumber(Take(input, n), 0)
    IN  IF \/ n < Len(input) /\ input[n + 1] \notin {"/", "\\", "?", "#"}
           \/ port > 65535
        THEN Err(UrlParseError)
        ELSE Ok([port |-> IF n = 0 \/ Some(port) = default_port(scheme)
                          THEN None ELSE Some(port),
                 rest |-> Drop(input, n)])

\* A "." or ".." path segment, with its dots written as they are or as %2e.
RECURSIVE Undotted(_)
Undotted(segment) ==
    IF segment = <<>> THEN <<>>
    ELSE IF Len(segment) >= 3 /\ Take(segment, 2) = <<"%", "2">>
            /\ segment[3] \in {"e", "E"}
    THEN <<".">> \o Undotted(Drop(segment, 3))
    ELSE <<segment[1]>> \o Undotted(Tail(segment))

\* starts_with_windows_drive_letter: a letter, then ":" or "|", and then the
\* end of the string or one of "/", "\", "?" and "#".
starts_with_windows_drive_letter(s) ==
    /\ Len(s) >= 2
    /\ s[1] \in AsciiAlpha
    /\ s[2] \in {":", "|"}
    /\ (Len(s) = 2 \/ s[3] \in {"/", "\\", "?", "#"})

\* Parser::last_slash_can_be_removed, on the segments parsed so far: the "/"
\* behind the last segment goes unless it is the root of the path or the
\* segment starts with a Windows drive letter, in a URL of any scheme.
last_slash_can_be_removed(path) ==
    /\ path # <<>>
    /\ ~starts_with_windows_drive_letter(Append(path[Len(path)], "/"))

\* Parser::shorten_path behind a ".." segment: the last segment goes with
\* its "/"; when the "/" stays, nothing goes.
shorten_path(path) ==
    IF last_slash_can_be_removed(path) THEN Take(path, Len(path) - 1)
    ELSE path

\* Parser::parse_path: the segments of the path, one after the other: a ".."
\* takes the segment before it away, unless that one starts with a Windows
\* drive letter, a "." is left out, and each of the two leaves an empty
\* segment when it is the last one; every other segment is percent-encoded.
RECURSIVE PathSegments(_, _, _)
PathSegments(segments, i, path) ==
    IF i > Len(segments) THEN path
    ELSE LET dots == IF segments[i] # <<>> /\ segments[i][1] \in {".", "%"}
                     THEN Undotted(segments[i]) ELSE segments[i]
             last == IF i = Len(segments) THEN << <<>> >> ELSE <<>>
         IN  PathSegments(segments, i + 1,
                IF dots = <<".", ".">>
                THEN shorten_path(path) \o last
                ELSE IF dots = <<".">> THEN path \o last
                ELSE Append(path, utf8_percent_encode(segments[i], PATH)))

RECURSIVE JoinPath(_)
JoinPath(path) ==
    IF path = <<>> THEN <<>> ELSE <<"/">> \o path[1] \o JoinPath(Tail(path))

\* The path that starts at the head of the input, which stands after the
\* authority or after the scheme: a "\" is a "/" in a URL with a special
\* scheme, and the first "/" starts the path, not a segment.
SegmentsOf(input, separators) ==
    JoinPath(PathSegments(
                SplitAny(IF input # <<>> /\ input[1] \in separators
                         THEN Tail(input) ELSE input,
                         separators),
                1, <<>>))

\* The path of a file URL starts with one "/": the empty segments at its
\* head are taken away ("path.trim_start_matches('/')").
trim_start_slashes(path) ==
    <<"/">> \o Drop(path, FirstNotIn(path, {"/"}) - 1)

parse_path(input, scheme) ==
    IF scheme = FILE THEN trim_start_slashes(SegmentsOf(input, {"/", "\\"}))
    ELSE IF is_special(scheme) THEN SegmentsOf(input, {"/", "\\"})
    ELSE SegmentsOf(input, {"/"})

\* Parser::with_query_and_fragment on what follows the path: the query runs
\* from a "?" to a "#", the fragment from a "#" to the end.
with_query_and_fragment(url, input) ==
    LET special == is_special(url.scheme)
        q == FirstIn(input, {"#"})
        query == IF input # <<>> /\ input[1] = "?"
                 THEN Some(utf8_percent_encode(
                              SubSeq(input, 2, q - 1),
                              IF special THEN SPECIAL_QUERY ELSE QUERY))
                 ELSE None
        fragment == IF q <= Len(input)
                    THEN Some(utf8_percent_encode(Drop(input, q), FRAGMENT))
                    ELSE None
    IN  Ok([url EXCEPT !.query = query, !.fragment = fragment])

\* A URL with no user, host, port, query or fragment.
Url(scheme, authority, path) ==
    [scheme |-> scheme, authority |-> authority, username |-> <<>>,
     password |-> None, host |-> <<>>, port |-> None, path |-> path,
     query |-> None, fragment |-> None]

\* Parser::parse_path_start and what follows it: the path up to a "?" or a
\* "#", the query and the fragment. The path of a URL with a special scheme
\* is never empty.
parse_path_start(url, input) ==
    LET p == FirstIn(input, {"?", "#"})
    IN  with_query_and_fragment(
            [url EXCEPT !.path =
                IF ~is_special(url.scheme) /\ p = 1 THEN <<>>
                ELSE parse_path(Take(input, p - 1), url.scheme)],
            Drop(input, p - 1))

\* The characters that end the authority of a URL.
AuthorityStops(scheme) ==
    IF is_special(scheme) THEN {"/", "\\", "?", "#"} ELSE {"/", "?", "#"}

\* The position of the last "@" of the authority, which ends before
\* position end; 0 when it has none.
LastAt(input, end) ==
    LET ats == {i \in 1..(end - 1) : input[i] = "@"}
    IN  IF ats = {} THEN 0 ELSE CHOOSE i \in ats : \A k \in ats : k <= i

\* The user and the password of the userinfo, the part before the "@".
Credentials(userinfo) ==
    LET colon == FirstIn(userinfo, {":"})
    IN  [username |-> utf8_percent_encode(Take(userinfo, colon - 1), USERINFO),
         password |-> IF colon < Len(userinfo)
                      THEN Some(utf8_percent_encode(Drop(userinfo, colon),
                                                    USERINFO))
                      ELSE None]

\* The position behind the host in what remains after the userinfo: that of
\* the first ":" outside square brackets or of the end of the authority.
RECURSIVE HostEndFrom(_, _, _, _)
HostEndFrom(remaining, stops, i, inside) ==
    IF \/ i > Len(remaining)
       \/ remaining[i] \in stops
       \/ remaining[i] = ":" /\ ~inside
    THEN i
    ELSE HostEndFrom(remaining, stops, i + 1,
                     IF remaining[i] = "[" THEN TRUE
                     ELSE IF remaining[i] = "]" THEN FALSE ELSE inside)

HostEnd(remaining, stops) == HostEndFrom(remaining, stops, 1, FALSE)

\* The port that starts what follows the host, or none.
PortOf(scheme, after_host) ==
    IF after_host # <<>> /\ after_host[1] = ":"
    THEN parse_port(Tail(after_host), scheme)
    ELSE Ok([port |-> None, rest |-> after_host])

\* The host of a URL, by its scheme.
HostOf(scheme, host_str) ==
    IF is_special(scheme) THEN Host_parse(host_str)
    ELSE Host_parse_opaque(host_str)

\* The URL of an authority that was parsed, and of what follows it; an empty
\* host goes with no port and no credentials.
with_authority(scheme, credentials, host, has_port, port) ==
    IF \/ ~host.ok
       \/ host.v = <<>> /\ (\/ has_port
                            \/ credentials.username # <<>>
                            \/ credentials.password.some)
       \/ ~port.ok
    THEN Err(UrlParseError)
    ELSE parse_path_start(
            [Url(scheme, TRUE, <<>>) EXCEPT
                !.username = credentials.username,
                !.password = credentials.password,
                !.host = host.v, !.port = port.v.port],
            port.v.rest)

\* Parser::parse_host and Parser::parse_port, on what remains after the
\* userinfo, the host ending before position host_end.
parse_host_and_port(scheme, credentials, remaining, host_end) ==
    with_authority(scheme, credentials,
                   HostOf(scheme, Take(remaining, host_end - 1)),
                   host_end <= Len(remaining) /\ remaining[host_end] = ":",
                   PortOf(scheme, Drop(remaining, host_end - 1)))

\* Parser::parse_userinfo: the user and the password before the last "@" of
\* the authority; an "@" with nothing before it and nothing behind is an
\* error.
parse_userinfo(scheme, input, end, last_at) ==
    IF last_at = 1 /\ end = 2 /\ end <= Len(input)
    THEN Err(UrlParseError)
    ELSE parse_host_and_port(scheme, Credentials(Take(input, last_at - 1)),
                             Drop(input, last_at),
                             HostEnd(Drop(input, last_at),
                                     AuthorityStops(scheme)))

\* Parser::after_double_slash: the userinfo, the host, the port, and the
\* rest of the URL.
after_double_slash(scheme, input) ==
    parse_userinfo(scheme, input, FirstIn(input, AuthorityStops(scheme)),
                   LastAt(input, FirstIn(input, AuthorityStops(scheme))))

\* The URL of the file scheme: a host after two slashes, and a path. The
\* host is parsed first, and a host that is then the domain "localhost",
\* however it was spelt, is no host.
LOCALHOST == <<"l", "o", "c", "a", "l", "h", "o", "s", "t">>

LocalhostDropped(host) ==
    IF host.ok /\ host.v = LOCALHOST THEN Ok(<<>>) ELSE host

FileHost(host_str) ==
    IF host_str = <<>> THEN Ok(<<>>)
    ELSE LocalhostDropped(Host_parse(host_str))

with_file_host(host, input) ==
    IF ~host.ok THEN host
    ELSE parse_path_start([Url(FILE, TRUE, <<>>) EXCEPT !.host = host.v],
                          input)

parse_file_host(after, host_end) ==
    with_file_host(FileHost(Take(after, host_end - 1)),
                   Drop(after, host_end - 1))

parse_file(input) ==
    IF FirstNotIn(input, {"/", "\\"}) - 1 < 2
    THEN parse_path_start(Url(FILE, TRUE, <<>>), input)
    ELSE parse_file_host(Drop(input, 2),
                         FirstIn(Drop(input, 2), {"/", "\\", "?", "#"}))

\* Parser::parse_non_special: an authority after "//", a path after "/", and
\* else a path that is not made of segments, with its controls encoded.
parse_non_special(scheme, input) ==
    LET p == FirstIn(input, {"?", "#"})
    IN  IF Len(input) >= 2 /\ Take(input, 2) = <<"/", "/">>
        THEN after_double_slash(scheme, Drop(input, 2))
        ELSE IF input # <<>> /\ input[1] = "/"
        THEN parse_path_start(Url(scheme, FALSE, <<>>), input)
        ELSE with_query_and_fragment(
                Url(scheme, FALSE,
                    utf8_percent_encode(Take(input, p - 1), Controls)),
                Drop(input, p - 1))

\* Url::parse: a string that starts with no scheme is a relative URL without
\* a base, an error; after a special scheme other than file the authority
\* starts behind the slashes and backslashes, however many there are.
parse_with_scheme(scheme, rest) ==
    IF scheme = FILE THEN parse_file(rest)
    ELSE IF is_special(scheme)
    THEN after_double_slash(scheme,
                            Drop(rest, FirstNotIn(rest, {"/", "\\"}) - 1))
    ELSE parse_non_special(scheme, rest)

parse_after_scheme(scheme) ==
    IF ~scheme.ok THEN scheme
    ELSE parse_with_scheme(scheme.v.scheme, scheme.v.rest)

url_parse(s) == parse_after_scheme(parse_scheme(Input(s)))

\* Url::to_string: the serialization of a URL. Without an authority, a path
\* that starts with "//" is written behind "/.", so that its head is not read
\* as an authority.
Url_to_string(url) ==
    url.scheme \o <<":">>
        \o (IF url.authority
            THEN <<"/", "/">> \o url.username
                    \o (IF url.password.some THEN <<":">> \o url.password.v
                        ELSE <<>>)
                    \o (IF url.username # <<>> \/ url.password.some
                        THEN <<"@">> ELSE <<>>)
                    \o url.host
                    \o (IF url.port.some THEN <<":">> \o FormatU64(url.port.v)
                        ELSE <<>>)
            ELSE IF Len(url.path) >= 2 /\ Take(url.path, 2) = <<"/", "/">>
            THEN <<"/", ".">>
            ELSE <<>>)
        \o url.path
        \o (IF url.query.some THEN <<"?">> \o url.query.v ELSE <<>>)
        \o (IF url.fragment.some THEN <<"#">> \o url.fragment.v ELSE <<>>)

\* form_urlencoded::byte_serialize: the characters kept as they are.
FormUnreserved ==
    {"*", "-", ".", "_"}
        \cup {ASCII[i] : i \in 17..26} \cup {ASCII[i] : i \in 34..59}
        \cup {ASCII[i] : i \in 66..91}

RECURSIVE FormUrlEncode(_)
FormUrlEncode(s) ==
    IF s = <<>> THEN <<>>
    ELSE (IF s[1] \in FormUnreserved THEN <<s[1]>>
          ELSE IF s[1] = " " THEN <<"+">>
          ELSE PercentEncoded(s[1]))
            \o FormUrlEncode(Tail(s))

\* Serializer::append_pair on the pairs so far.
append_pair(query, name, value) ==
    (IF query = <<>> THEN <<>> ELSE query \o <<"&">>)
        \o FormUrlEncode(name) \o <<"=">> \o FormUrlEncode(value)

----------------------------------------------------------------------------
(* Requests and responses.                                                 *)

NoBody == [t |-> "none"]
Bytes(b) == [t |-> "bytes", b |-> b]

Request(method, url, headers, body) ==
    [method |-> method, url |-> url, headers |-> headers, body |-> body]

\* A URL reqwest sends a request to: one that parses, with a host and the
\* scheme http or https.
Sendable(parsed) ==
    IF parsed.ok /\ parsed.v.host # <<>> /\ parsed.v.scheme \in {HTTP, HTTPS}
    THEN parsed
    ELSE Err(RequestError)

IntoUrl(url) == Sendable(url_parse(url))

\* The request to a URL that was parsed, of a call whose headers were built
\* (or failed to be).
SendTo(rh, method, parsed, body) ==
    IF ~rh.ok THEN rh
    ELSE IF ~parsed.ok THEN parsed
    ELSE Ok(Request(method,
                    Url_to_string([parsed.v EXCEPT !.username = <<>>,
                                                   !.password = None]),
                    rh.v, body))

\* The request of a call whose headers were built (or failed to be).
\* (reqwest parses the URL when the request is built and takes the user and
\* the password out of it; the error of a URL it cannot send to is the error
\* of send(), and no request leaves. The Authorization header the user and
\* the password make gives way to the one among the headers of the call.)
Send(rh, method, url, body) == SendTo(rh, method, IntoUrl(url), body)

\* StatusCode::is_success
is_success(status) == status >= 200 /\ status < 300

\* Serialization of an Option: null for None.
JOpt(o, j) == IF o.some THEN j ELSE JNull

JStrings(ss) == JArr([i \in 1..Len(ss) |-> JStr(ss[i])])

----------------------------------------------------------------------------
(* Bucket operations.                                                      *)

create_bucket_headers(self) ==
    TryInsert(
        AuthIfAbsent(TryInsert(Ok(self.headers), HEADER_API_KEY, self.api_key),
                     self),
        CONTENT_TYPE, APPLICATION_JSON)

\* The CreateBucket payload, serialized.
\* The payload with the id left out when none is given.
create_bucket_payload_no_default(name, id, public, allowed_mime_types, file_size_limit) ==
    JObj([id |-> JOpt(id, JStr(UnwrapOr(id, <<>>))),
          name |-> JStr(name),
          public |-> JBool(public),
          allowed_mime_types |-> JNull,
          file_size_limit |-> JNull])

create_bucket_payload(name, id, public, allowed_mime_types, file_size_limit) ==
    LET mime_types ==
            IF allowed_mime_types.some
            THEN Some([i \in 1..Len(allowed_mime_types.v) |->
                          to_string(allowed_mime_types.v[i])])
            ELSE None
    IN  JObj([id |-> JOpt(Some(UnwrapOr(id, name)), JStr(UnwrapOr(id, name))),
              name |-> JStr(name),
              public |-> JBool(public),
              allowed_mime_types |->
                  IF mime_types.some THEN JStrings(mime_types.v) ELSE JNull,
              file_size_limit |->
                  IF file_size_limit.some THEN JNum(file_size_limit.v)
                  ELSE JNull])

create_bucket_request(self, name, id, public, allowed_mime_types, file_size_limit) ==
    Send(create_bucket_headers(self), "POST",
         self.project_url \o STORAGE_V1 \o <<"/", "b", "u", "c", "k", "e", "t">>,
         create_bucket_payload(name, id, public, allowed_mime_types,
                               file_size_limit))

create_bucket_response(self, res_status, res_body) ==
    LET bucket == FromStrOrStorageError(CreateBucketResponseT, res_status,
                                        res_body)
    IN  IF bucket.ok THEN Ok(bucket.v.name) ELSE bucket

delete_bucket_headers(self) == AuthIfAbsent(Ok(self.headers), self)

delete_bucket_request(self, id) ==
    Send(delete_bucket_headers(self), "DELETE",
         self.project_url \o STORAGE_V1
            \o <<"/", "b", "u", "c", "k", "e", "t", "/">> \o id,
         NoBody)

Unit == <<>>

\* The body parsed for a message, the status not looked at.
delete_bucket_response_parsing(self, res_status, res_body) ==
    LET bucket == FromStrOrStorageError(BucketResponseT, res_status, res_body)
    IN  IF bucket.ok THEN Ok(<<>>) ELSE bucket

delete_bucket_response(self, res_status, res_body) ==
    IF is_success(res_status) THEN Ok(Unit)
    ELSE Err(StorageError(res_status, res_body))

get_bucket_headers(self) ==
    TryInsert(AuthIfAbsent(Ok(self.headers), self),
              CONTENT_TYPE, APPLICATION_JSON)

get_bucket_request(self, bucket_id) ==
    Send(get_bucket_headers(self), "GET",
         self.project_url \o STORAGE_V1
            \o <<"/", "b", "u", "c", "k", "e", "t", "/">> \o bucket_id,
         NoBody)

get_bucket_response(self, res_status, res_body) ==
    FromStrOrStorageError(BucketT, res_status, res_body)

list_buckets_headers(self) ==
    TryInsert(AuthIfAbsent(Ok(self.headers), self),
              CONTENT_TYPE, APPLICATION_JSON)

list_buckets_request(self) ==
    Send(list_buckets_headers(self), "GET",
         self.project_url \o STORAGE_V1 \o <<"/", "b", "u", "c", "k", "e", "t">>,
         NoBody)

list_buckets_response(self, res_status, res_body) ==
    FromStrOrStorageError(BucketsT, res_status, res_body)

update_bucket_headers(self) ==
    TryInsert(
        AuthIfAbsent(TryInsert(Ok(self.headers), HEADER_API_KEY, self.api_key),
                     self),
        CONTENT_TYPE, APPLICATION_JSON)

\* The UpdateBucket payload, serialized.
update_bucket_payload(id, public, allowed_mime_types, file_size_limit) ==
    LET mime_types ==
            IF allowed_mime_types.some
            THEN Some([i \in 1..Len(allowed_mime_types.v) |->
                          to_string(allowed_mime_types.v[i])])
            ELSE None
    IN  JObj([id |-> JStr(id),
              public |-> JBool(public),
              allowed_mime_types |->
                  IF mime_types.some THEN JStrings(mime_types.v) ELSE JNull,
              file_size_limit |->
                  IF file_size_limit.some THEN JNum(file_size_limit.v)
                  ELSE JNull])

update_bucket_request(self, id, public, allowed_mime_types, file_size_limit) ==
    Send(update_bucket_headers(self), "PUT",
         self.project_url \o STORAGE_V1
            \o <<"/", "b", "u", "c", "k", "e", "t", "/">> \o id,
         update_bucket_payload(id, public, allowed_mime_types, file_size_limit))

update_bucket_response(self, res_status, res_body) ==
    LET bucket == FromStrOrStorageError(BucketResponseT, res_status, res_body)
    IN  IF bucket.ok THEN Ok(bucket.v.message) ELSE bucket

empty_bucket_headers(self) ==
    AuthIfAbsent(TryInsert(Ok(self.headers), HEADER_API_KEY, self.api_key),
                 self)

empty_bucket_request(self, id) ==
    Send(empty_bucket_headers(self), "POST",
         self.project_url \o STORAGE_V1
            \o <<"/", "b", "u", "c", "k", "e", "t", "/">> \o id
            \o <<"/", "e", "m", "p", "t", "y">>,
         NoBody)

empty_bucket_response(self, res_status, res_body) ==
    LET bucket == FromStrOrStorageError(BucketResponseT, res_status, res_body)
    IN  IF bucket.ok THEN Ok(bucket.v.message) ELSE bucket

----------------------------------------------------------------------------
(* Object operations.                                                      *)

\* The optional headers of an upload: "if let Some(opts) = options { .. }".
\* x-upsert set to the flag's text whenever options are given.
file_options_headers_upsert_always(rh, options) ==
    IF ~options.some THEN rh
    ELSE LET opts == options.v
             h1 == IF opts.cache_control.some
                   THEN TryInsert(rh, CACHE_CONTROL,
                                  FormatU64(as_secs(opts.cache_control.v)))
                   ELSE rh
             h2 == IF opts.content_type.some
                   THEN TryInsert(h1, CONTENT_TYPE, opts.content_type.v)
                   ELSE h1
         IN  TryInsert(h2, X_UPSERT, FormatBool(opts.upsert))

file_options_headers(rh, options) ==
    IF ~options.some THEN rh
    ELSE LET opts == options.v
             h1 == IF opts.cache_control.some
                   THEN TryInsert(rh, CACHE_CONTROL,
                                  FormatU64(as_secs(opts.cache_control.v)))
                   ELSE rh
             h2 == IF opts.content_type.some
                   THEN TryInsert(h1, CONTENT_TYPE, opts.content_type.v)
                   ELSE h1
         IN  IF opts.upsert
             THEN TryInsert(h2, X_UPSERT, FormatBool(opts.upsert))
             ELSE h2

upload_or_update_file_headers(self, options) ==
    file_options_headers(AuthIfAbsent(Ok(self.headers), self), options)

upload_or_update_file_request(self, bucket_id, data, path, update, options) ==
    Send(upload_or_update_file_headers(self, options),
         IF update THEN "PUT" ELSE "POST",
         self.project_url \o STORAGE_V1
            \o <<"/", "o", "b", "j", "e", "c", "t", "/">> \o bucket_id
            \o <<"/">> \o path,
         Bytes(data))

upload_or_update_file_response(self, res_status, res_body) ==
    FromStrOrStorageError(ObjectResponseT, res_status, res_body)

replace_file_request(self, bucket_id, data, path, options) ==
    upload_or_update_file_request(self, bucket_id, data, path, TRUE, options)

\* update_file issuing the verb of upload_file.
update_file_request_post(self, bucket_id, data, path, options) ==
    upload_or_update_file_request(self, bucket_id, data, path, FALSE, options)

update_file_request(self, bucket_id, data, path, options) ==
    upload_or_update_file_request(self, bucket_id, data, path, TRUE, options)

upload_file_request(self, bucket_id, data, path, options) ==
    upload_or_update_file_request(self, bucket_id, data, path, FALSE, options)

download_file_headers(self) == AuthIfAbsent(Ok(self.headers), self)

\* The plain object path whatever the options are.
download_file_renderpath_object(options) == <<"o", "b", "j", "e", "c", "t">>

download_file_renderpath(options) ==
    IF options.some /\ options.v.transform.some
    THEN <<"r", "e", "n", "d", "e", "r", "/", "i", "m", "a", "g", "e", "/",
           "a", "u", "t", "h", "e", "n", "t", "i", "c", "a", "t", "e", "d">>
    ELSE <<"o", "b", "j", "e", "c", "t">>

download_file_request(self, bucket_id, path, options) ==
    Send(download_file_headers(self), "GET",
         self.project_url \o STORAGE_V1 \o <<"/">>
            \o download_file_renderpath(options) \o <<"/">> \o bucket_id
            \o <<"/">> \o path,
         NoBody)

\* The character of a code point, for the code points the bytes of the
\* model decode to.
Chr(n) ==
    CASE n >= 32 /\ n <= 126 -> ASCII[n - 31]
      [] n = 9 -> "\t"
      [] n = 10 -> "\n"
      [] n = 233 -> "U+00E9"

\* String::from_utf8_lossy, for bytes below 224 (one- and two-byte
\* sequences): a byte that starts no valid sequence becomes U+FFFD.
RECURSIVE from_utf8_lossy(_)
from_utf8_lossy(b) ==
    IF b = <<>> THEN <<>>
    ELSE IF b[1] < 128 THEN <<Chr(b[1])>> \o from_utf8_lossy(Tail(b))
    ELSE IF /\ b[1] >= 194 /\ b[1] <= 223
            /\ Len(b) >= 2 /\ b[2] >= 128 /\ b[2] <= 191
         THEN <<Chr((b[1] - 192) * 64 + (b[2] - 128))>>
                \o from_utf8_lossy(SubSeq(b, 3, Len(b)))
    ELSE <<"U+FFFD">> \o from_utf8_lossy(Tail(b))

download_file_response(self, res_status, res_body) ==
    IF ~is_success(res_status)
    THEN Err(StorageError(res_status, from_utf8_lossy(res_body)))
    ELSE Ok(res_body)

delete_file_headers(self) == AuthIfAbsent(Ok(self.headers), self)

delete_file_request(self, bucket_id, path) ==
    Send(delete_file_headers(self), "DELETE",
         self.project_url \o STORAGE_V1
            \o <<"/", "o", "b", "j", "e", "c", "t", "/">> \o bucket_id
            \o <<"/">> \o path,
         NoBody)

delete_file_response(self, res_status, res_body) ==
    FromStrOrStorageError(BucketResponseT, res_status, res_body)

list_files_headers(self) ==
    AuthIfAbsent(TryInsert(Ok(self.headers), CONTENT_TYPE, APPLICATION_JSON),
                 self)

\* #[serde(rename_all = "snake_case")] on Column and Order: an upper-case
\* letter becomes lower-case, with "_" before it unless it is the first.
snake_case(variant) ==
    CASE variant = "Name" -> <<"n", "a", "m", "e">>
      [] variant = "ID" -> <<"i", "_", "d">>
      [] variant = "UpdatedAt" ->
            <<"u", "p", "d", "a", "t", "e", "d", "_", "a", "t">>
      [] variant = "CreatedAt" ->
            <<"c", "r", "e", "a", "t", "e", "d", "_", "a", "t">>
      [] variant = "LastAccessedAt" ->
            <<"l", "a", "s", "t", "_", "a", "c", "c", "e", "s", "s", "e", "d",
              "_", "a", "t">>
      [] variant = "Asc" -> <<"a", "s", "c">>
      [] variant = "Desc" -> <<"d", "e", "s", "c">>

\* FileSearchOptions::default()
DefaultFileSearchOptions ==
    [limit |-> None, offset |-> None, sort_by |-> None, search |-> None]

\* The ListFilesPayload serialized with no field skipped: a None is null.
list_files_payload_nulls(path, options) ==
    LET opts == UnwrapOr(options, DefaultFileSearchOptions)
    IN  JObj([prefix |-> JStr(UnwrapOr(path, <<>>)),
              limit |-> IF opts.limit.some THEN JNum(opts.limit.v) ELSE JNull,
              offset |-> IF opts.offset.some THEN JNum(opts.offset.v)
                         ELSE JNull,
              sortBy |-> IF opts.sort_by.some
                         THEN JObj([column |->
                                        JStr(snake_case(opts.sort_by.v.column)),
                                    order |->
                                        JStr(snake_case(opts.sort_by.v.order))])
                         ELSE JNull,
              search |-> IF opts.search.some THEN JStr(opts.search.v)
                         ELSE JNull])

\* The ListFilesPayload, serialized: a field that is None is skipped.
list_files_payload(path, options) ==
    LET opts == UnwrapOr(options, DefaultFileSearchOptions)
        keys == {"prefix"}
                  \cup (IF opts.limit.some THEN {"limit"} ELSE {})
                  \cup (IF opts.offset.some THEN {"offset"} ELSE {})
                  \cup (IF opts.sort_by.some THEN {"sortBy"} ELSE {})
                  \cup (IF opts.search.some THEN {"search"} ELSE {})
    IN  JObj([k \in keys |->
                CASE k = "prefix" -> JStr(UnwrapOr(path, <<>>))
                  [] k = "limit" -> JNum(opts.limit.v)
                  [] k = "offset" -> JNum(opts.offset.v)
                  [] k = "sortBy" ->
                        JObj([column |-> JStr(snake_case(opts.sort_by.v.column)),
                              order |-> JStr(snake_case(opts.sort_by.v.order))])
                  [] k = "search" -> JStr(opts.search.v)])

list_files_request(self, bucket_id, path, options) ==
    Send(list_files_headers(self), "POST",
         self.project_url \o STORAGE_V1
            \o <<"/", "o", "b", "j", "e", "c", "t", "/", "l", "i", "s", "t", "/">>
            \o bucket_id,
         list_files_payload(path, options))

list_files_response(self, res_status, res_body) ==
    FromStrOrStorageError(VecT(FileObjectT), res_status, res_body)

copy_file_headers(self) ==
    AuthIfAbsent(TryInsert(Ok(self.headers), CONTENT_TYPE, APPLICATION_JSON),
                 self)

\* The CopyFilePayload, serialized.
\* The destination left empty when none is given.
copy_file_payload_no_default(from_bucket, to_bucket, from_path, to_path, copy_metadata) ==
    JObj([bucketId |-> JStr(from_bucket),
          sourceKey |-> JStr(from_path),
          destinationBucket |-> JStr(UnwrapOr(to_bucket, <<>>)),
          destinationKey |-> JStr(UnwrapOr(to_path, <<>>)),
          copyMetadata |-> JBool(copy_metadata)])

copy_file_payload(from_bucket, to_bucket, from_path, to_path, copy_metadata) ==
    JObj([bucketId |-> JStr(from_bucket),
          sourceKey |-> JStr(from_path),
          destinationBucket |-> JStr(UnwrapOr(to_bucket, from_bucket)),
          destinationKey |-> JStr(UnwrapOr(to_path, from_path)),
          copyMetadata |-> JBool(copy_metadata)])

copy_file_request(self, from_bucket, to_bucket, from_path, to_path, copy_metadata) ==
    Send(copy_file_headers(self), "POST",
         self.project_url \o STORAGE_V1
            \o <<"/", "o", "b", "j", "e", "c", "t", "/", "c", "o", "p", "y">>,
         copy_file_payload(from_bucket, to_bucket, from_path, to_path,
                           copy_metadata))

\* copy_file returning the Id of the response in place of its Key.
copy_file_response_id(self, res_status, res_body) ==
    LET value == FromStrOrStorageError(ObjectResponseT, res_status, res_body)
    IN  IF value.ok THEN Ok(value.v.id) ELSE value

copy_file_response(self, res_status, res_body) ==
    LET value == FromStrOrStorageError(CopyFileResponseT, res_status, res_body)
    IN  IF value.ok THEN Ok(value.v.key) ELSE value

create_signed_url_headers(self) ==
    AuthIfAbsent(TryInsert(Ok(self.headers), CONTENT_TYPE, APPLICATION_JSON),
                 self)

\* TransformOptions, serialized: every field, null when None.
transform_json(transform) ==
    JObj([width |-> JOpt(transform.width, JNum(transform.width.v)),
          height |-> JOpt(transform.height, JNum(transform.height.v)),
          resize |-> JOpt(transform.resize, JStr(transform.resize.v)),
          format |-> JOpt(transform.format, JStr(transform.format.v)),
          quality |-> JOpt(transform.quality, JNum(transform.quality.v))])

\* options.and_then(|opts| opts.transform)
options_transform(options) ==
    IF options.some THEN options.v.transform ELSE None

\* The CreateSignedUrlPayload, serialized.
create_signed_url_payload(expires_in, options) ==
    LET transform == options_transform(options)
    IN  JObj([expiresIn |-> JNum(expires_in),
              transform |-> JOpt(transform, transform_json(transform.v))])

create_signed_url_request(self, bucket_id, path, expires_in, options) ==
    Send(create_signed_url_headers(self), "POST",
         self.project_url \o STORAGE_V1
            \o <<"/", "o", "b", "j", "e", "c", "t", "/", "s", "i", "g", "n", "/">>
            \o bucket_id \o <<"/">> \o path,
         create_signed_url_payload(expires_in, options))

\* create_signed_url returning the path of the response as it is.
create_signed_url_response_relative(self, res_status, res_body) ==
    LET signed_url_response ==
            FromStrOrStorageError(SignedUrlResponseT, res_status, res_body)
    IN  IF signed_url_response.ok
        THEN Ok(signed_url_response.v.signed_url)
        ELSE signed_url_response

create_signed_url_response(self, res_status, res_body) ==
    LET signed_url_response ==
            FromStrOrStorageError(SignedUrlResponseT, res_status, res_body)
    IN  IF signed_url_response.ok
        THEN Ok(self.project_url \o STORAGE_V1
                  \o signed_url_response.v.signed_url)
        ELSE signed_url_response

create_multiple_signed_urls_headers(self) ==
    AuthIfAbsent(TryInsert(Ok(self.headers), CONTENT_TYPE, APPLICATION_JSON),
                 self)

\* The CreateMultipleSignedUrlsPayload, serialized.
create_multiple_signed_urls_payload(paths, expires_in) ==
    JObj([expiresIn |-> JNum(expires_in), paths |-> JStrings(paths)])

create_multiple_signed_urls_request(self, bucket_id, paths, expires_in) ==
    Send(create_multiple_signed_urls_headers(self), "POST",
         self.project_url \o STORAGE_V1
            \o <<"/", "o", "b", "j", "e", "c", "t", "/", "s", "i", "g", "n", "/">>
            \o bucket_id,
         create_multiple_signed_urls_payload(paths, expires_in))

create_multiple_signed_urls_response(self, res_status, res_body) ==
    LET signed_url_response ==
            FromStrOrStorageError(VecT(SignedUrlResponseT), res_status,
                                  res_body)
    IN  IF signed_url_response.ok
        THEN Ok([i \in 1..Len(signed_url_response.v) |->
                    self.project_url \o STORAGE_V1
                        \o signed_url_response.v[i].signed_url])
        ELSE signed_url_response

create_signed_upload_url_headers(self) ==
    AuthIfAbsent(Ok(self.headers), self)

create_signed_upload_url_request(self, bucket_id, path) ==
    Send(create_signed_upload_url_headers(self), "POST",
         self.project_url \o STORAGE_V1
            \o <<"/", "o", "b", "j", "e", "c", "t", "/", "u", "p", "l", "o", "a",
                 "d", "/", "s", "i", "g", "n", "/">>
            \o bucket_id \o <<"/">> \o path,
         NoBody)

create_signed_upload_url_response(self, res_status, res_body) ==
    FromStrOrStorageError(SignedUploadUrlResponseT, res_status, res_body)

upload_to_signed_url_headers(self, options) ==
    file_options_headers(AuthIfAbsent(Ok(self.headers), self), options)

\* upload_to_signed_url putting to the signed path without the token.
upload_to_signed_url_request_no_token(self, bucket_id, token, data, path, options) ==
    Send(upload_to_signed_url_headers(self, options), "PUT",
         self.project_url \o STORAGE_V1
            \o <<"/", "o", "b", "j", "e", "c", "t", "/", "u", "p", "l", "o", "a",
                 "d", "/", "s", "i", "g", "n", "/">>
            \o bucket_id \o <<"/">> \o path,
         Bytes(data))

upload_to_signed_url_request(self, bucket_id, token, data, path, options) ==
    Send(upload_to_signed_url_headers(self, options), "PUT",
         self.project_url \o STORAGE_V1
            \o <<"/", "o", "b", "j", "e", "c", "t", "/", "u", "p", "l", "o", "a",
                 "d", "/", "s", "i", "g", "n", "/">>
            \o bucket_id \o <<"/">> \o path
            \o <<"?", "t", "o", "k", "e", "n", "=">> \o token,
         Bytes(data))

upload_to_signed_url_response(self, res_status, res_body) ==
    FromStrOrStorageError(UploadToSignedUrlResponseT, res_status, res_body)

move_file_headers(self) ==
    AuthIfAbsent(TryInsert(Ok(self.headers), CONTENT_TYPE, APPLICATION_JSON),
                 self)

\* The MoveFilePayload, serialized.
move_file_payload(from_bucket, to_bucket, from_path, to_path) ==
    JObj([bucketId |-> JStr(from_bucket),
          sourceKey |-> JStr(from_path),
          destinationBucket |-> JStr(UnwrapOr(to_bucket, from_bucket)),
          destinationKey |-> JStr(to_path)])

move_file_request(self, from_bucket, to_bucket, from_path, to_path) ==
    Send(move_file_headers(self), "POST",
         self.project_url \o STORAGE_V1
            \o <<"/", "o", "b", "j", "e", "c", "t", "/", "m", "o", "v", "e">>,
         move_file_payload(from_bucket, to_bucket, from_path, to_path))

\* move_file reading the response as copy_file does, for its Key.
move_file_response_key(self, res_status, res_body) ==
    LET value == FromStrOrStorageError(CopyFileResponseT, res_status, res_body)
    IN  IF value.ok THEN Ok(value.v.key) ELSE value

move_file_response(self, res_status, res_body) ==
    LET value == FromStrOrStorageError(BucketResponseT, res_status, res_body)
    IN  IF value.ok THEN Ok(value.v.message) ELSE value

\* The pairs build_url_with_options appends to the query, in its order.
QueryPairs(q0, options) ==
    LET transform == options.transform
        q1 == IF transform.some /\ transform.v.height.some
              THEN append_pair(q0, <<"h", "e", "i", "g", "h", "t">>,
                               FormatU64(transform.v.height.v))
              ELSE q0
        q2 == IF transform.some /\ transform.v.width.some
              THEN append_pair(q1, <<"w", "i", "d", "t", "h">>,
                               FormatU64(transform.v.width.v))
              ELSE q1
        q3 == IF transform.some /\ transform.v.format.some
              THEN append_pair(q2, <<"f", "o", "r", "m", "a", "t">>,
                               transform.v.format.v)
              ELSE q2
        q4 == IF transform.some /\ transform.v.quality.some
              THEN append_pair(q3, <<"q", "u", "a", "l", "i", "t", "y">>,
                               FormatU64(transform.v.quality.v))
              ELSE q3
        q5 == IF /\ transform.some /\ transform.v.resize.some
                 /\ transform.v.resize.v \in
                      {<<"c", "o", "n", "v", "e", "r">>,
                       <<"c", "o", "n", "t", "a", "i", "n">>,
                       <<"f", "i", "l", "l">>}
              THEN append_pair(q4, <<"r", "e", "s", "i", "z", "e">>,
                               transform.v.resize.v)
              ELSE q4
    IN  IF UnwrapOr(options.download, FALSE)
        THEN append_pair(q5, <<"d", "o", "w", "n", "l", "o", "a", "d">>,
                         <<"t", "r", "u", "e">>)
        ELSE q5

\* The URL that was parsed, with the pairs appended to its query.
with_query_pairs(url, options) ==
    IF ~url.ok THEN url
    ELSE Ok(Url_to_string(
                [url.v EXCEPT !.query =
                    Some(QueryPairs(UnwrapOr(url.v.query, <<>>), options))]))

\* build_url_with_options. Url::query_pairs_mut appends to the query the URL
\* has, and starts one if it has none, so that the URL has its "?" even when
\* no pair is appended; the fragment stays behind the query.
build_url_with_options(url_str, options) ==
    with_query_pairs(url_parse(url_str), options)

\* The object segment whatever the options are.
get_public_url_renderpath_object(options) == <<"o", "b", "j", "e", "c", "t">>

get_public_url_renderpath(options) ==
    IF options.some /\ options.v.transform.some
    THEN <<"r", "e", "n", "d", "e", "r", "/", "i", "m", "a", "g", "e">>
    ELSE <<"o", "b", "j", "e", "c", "t">>

\* StorageClient::get_public_url
get_public_url(self, bucket_id, path, options) ==
    LET url_str == self.project_url \o STORAGE_V1 \o <<"/">>
                      \o get_public_url_renderpath(options)
                      \o <<"/", "p", "u", "b", "l", "i", "c", "/">>
                      \o bucket_id \o <<"/">> \o path
    IN  IF options.some THEN build_url_with_options(url_str, options.v)
        ELSE Ok(url_str)

\* str::split: the strings between the occurrences of c in s, in order.
RECURSIVE SplitSeq(_, _)
SplitSeq(s, c) ==
    IF \A i \in 1..Len(s) : s[i] # c THEN <<s>>
    ELSE LET i == CHOOSE k \in 1..Len(s) :
                     s[k] = c /\ \A m \in 1..(k - 1) : s[m] # c
         IN  <<SubSeq(s, 1, i - 1)>> \o SplitSeq(SubSeq(s, i + 1, Len(s)), c)

\* Error::InvalidToken { message: "No token found in URL" }
InvalidToken == [kind |-> "InvalidToken", message |-> "No token found in URL"]

TOKEN_PREFIX == <<"t", "o", "k", "e", "n", "=">>

\* str::starts_with
starts_with(s, prefix) ==
    Len(s) >= Len(prefix) /\ SubSeq(s, 1, Len(prefix)) = prefix

\* str::strip_prefix, of a string that starts with the prefix.
strip_prefix(s, prefix) == SubSeq(s, Len(prefix) + 1, Len(s))

\* extract_token taking the last parameter that starts with "token=".
extract_token_last(url) ==
    LET parts == SplitSeq(url, "?")
        params == SplitSeq(parts[2], "&")
        found == {i \in 1..Len(params) : starts_with(params[i], TOKEN_PREFIX)}
    IN  IF Len(parts) < 2 \/ found = {} THEN Err(InvalidToken)
        ELSE Ok(strip_prefix(
                    params[CHOOSE i \in found : \A k \in found : k <= i],
                    TOKEN_PREFIX))

\* extract_token: the second of the pieces between the "?" of the url is
\* the query; of its pieces between "&", the first that starts with "token="
\* gives the token, and there is none when there is no such piece.
extract_token(url) ==
    LET parts == SplitSeq(url, "?")
        params == SplitSeq(parts[2], "&")
        found == {i \in 1..Len(params) : starts_with(params[i], TOKEN_PREFIX)}
    IN  IF Len(parts) < 2 \/ found = {} THEN Err(InvalidToken)
        ELSE Ok(strip_prefix(
                    params[CHOOSE i \in found : \A k \in found : i <= k],
                    TOKEN_PREFIX))

----------------------------------------------------------------------------
(* The inputs of the model.                                                *)

\* An http URL, and a string with no scheme, which is no URL.
ProjectUrls ==
    {<<"h", "t", "t", "p", ":", "/", "/", "a">>,
     <<"b">>}

\* The same, and two URLs no request can be sent to: one with a host and a
\* scheme that is neither http nor https, and one with no host.
RequestUrls ==
    ProjectUrls
        \cup {<<"f", "t", "p", ":", "/", "/", "a">>,
              <<"f", "i", "l", "e", ":", "/", "/">>}
\* A credential, and one that is no legal header value (it holds a newline).
ApiKeys == {<<"k", "1">>, <<"k", "\n">>}

EnvValues(strings) ==
    {[is |-> "NotPresent"], [is |-> "NotUnicode"]}
        \cup {[is |-> "String", v |-> x] : x \in strings}
Envs ==
    [SUPABASE_URL : EnvValues(ProjectUrls), SUPABASE_API_KEY : EnvValues(ApiKeys)]

\* The names insert_header is called with: the five headers the operations
\* set themselves, and one they never set.
DefaultHeaderNames ==
    {HEADER_API_KEY, AUTHORIZATION, CONTENT_TYPE, CACHE_CONTROL, X_UPSERT,
     "x-custom"}
DefaultHeaderValues == {<<"v">>, <<"U+00E9">>, <<"v", "\n">>}

B1 == <<"b", "1">>
B2 == <<"b", "2">>
Names == {B1, B2}
PathX == <<"x">>
PathY == <<"y">>
DataBytes == <<104, 105>>
DataInputs == {DataBytes, <<255, 104>>}
TokenT == <<"t", "k">>

MimeInputs ==
    {None, Some(<<[variant |-> "PNG"],
                  [variant |-> "Custom", s |-> <<"a", "/", "b">>]>>)}
SizeInputs == {None, Some(5)}

\* The variants of MimeType beside Custom.
MimeVariants ==
    {"AAC", "AbiWord", "APNG", "Archive", "AVIF", "AVI", "AmazonKindle",
     "BinaryData", "BMP", "BZip", "BZip2", "CDAudio", "CShellScript",
     "CSS", "CSV", "DOC", "DOCX", "EOT", "EPUB", "GZip", "GIF", "HTML",
     "Icon", "ICalendar", "JAR", "JPEG", "JavaScript", "JSON", "JSONLD",
     "MIDI", "JavaScriptModule", "MP3", "MP4", "MPEG", "AppleInstaller",
     "ODP", "ODS", "ODT", "OggAudio", "OggVideo", "Ogg", "OpusAudio",
     "OTF", "PNG", "PDF", "PHP", "PPT", "PPTX", "RAR", "RTF",
     "ShellScript", "SVG", "TAR", "TIFF", "MPEGTransportStream", "TTF",
     "PlainText", "Visio", "WAV", "WEBMAudio", "WEBMVideo", "WEBP",
     "WOFF", "WOFF2", "XHTML", "XLS", "XLSX", "XML", "XUL", "ZIP",
     "ThreeGPP", "ThreeGPP2", "SevenZip"}

\* The strings a Custom is constructed with: a MIME type, the empty string
\* of the tests, and strings that are no type/subtype.
CustomStrings ==
    {<<"a", "/", "b">>, <<>>, <<"a">>, <<"/">>, <<"a", "/">>, <<"/", "b">>,
     <<"a", "/", "b", "/", "c">>, <<"a", " ", "/", "b">>}

MimeValues ==
    {[variant |-> v] : v \in MimeVariants}
        \cup {[variant |-> "Custom", s |-> s] : s \in CustomStrings}

Duration(secs, nanos) == [secs |-> secs, nanos |-> nanos]
FileOptionsOf(cache_control, content_type, upsert) ==
    [cache_control |-> cache_control, content_type |-> content_type,
     duplex |-> None, upsert |-> upsert]
FileOptionsInputs ==
    {None,
     Some(FileOptionsOf(None, None, FALSE)),
     Some(FileOptionsOf(Some(Duration(MaxCacheSecs, 500000000)),
                        Some(<<"a", "/", "b">>), TRUE)),
     Some(FileOptionsOf(None, Some(<<"a", "\n">>), TRUE))}

TransformOf(width, height, resize, format, quality) ==
    [width |-> width, height |-> height, resize |-> resize,
     format |-> format, quality |-> quality]
DownloadOptionsInputs ==
    {None,
     Some([transform |-> None, download |-> Some(TRUE)]),
     Some([transform |-> Some(TransformOf(Some(3), None,
                                          Some(<<"f", "i", "l", "l">>),
                                          None, None)),
           download |-> None]),
     Some([transform |-> Some(TransformOf(None, Some(4),
                                          Some(<<"b", "a", "d">>),
                                          Some(<<"o", "r", "i", "g", "i", "n">>),
                                          Some(50))),
           download |-> Some(TRUE)])}

\* The options of get_public_url: every combination of the fields being set,
\* with the three resize modes of the documentation, the one the code
\* compares with, and one that is none of them.
ResizeInputs ==
    {None, Some(<<"c", "o", "v", "e", "r">>),
     Some(<<"c", "o", "n", "t", "a", "i", "n">>), Some(<<"f", "i", "l", "l">>),
     Some(<<"c", "o", "n", "v", "e", "r">>), Some(<<"b", "a", "d">>)}
PublicUrlOptionsInputs ==
    {None}
      \cup {Some([transform |-> t, download |-> d]) :
              t \in {None}
                  \cup {Some(TransformOf(w, h, r, f, q)) :
                          w \in {None, Some(3)}, h \in {None, Some(4)},
                          r \in ResizeInputs,
                          f \in {None, Some(<<"a", " ", "b">>)},
                          q \in {None, Some(50)}},
              d \in {None, Some(TRUE), Some(FALSE)}}
\* A path with a space, which a URL holds percent-encoded.
PathSpace == <<"x", " ", "y">>

FileSearchOptionsInputs ==
    {None,
     Some([limit |-> Some(5), offset |-> None,
           sort_by |-> Some([column |-> "ID", order |-> "Desc"]),
           search |-> None]),
     Some([limit |-> None, offset |-> Some(1),
           sort_by |-> Some([column |-> "Name", order |-> "Asc"]),
           search |-> Some(<<"s">>)])}

Statuses == {200, 204, 404}

BucketJson(id) ==
    JObj([id |-> JStr(id), name |-> JStr(id), owner |-> JStr(<<>>),
          public |-> JBool(FALSE), file_size_limit |-> JNull,
          created_at |-> JStr(<<"c">>), updated_at |-> JStr(<<"u">>)])

\* The bodies a server answers with: text that is no JSON, the service's
\* error document, and documents of the shapes the operations expect.
TextBodies ==
    {Text(<<"n", "o">>),
     JObj([statusCode |-> JStr(<<"4", "0", "4">>),
           error |-> JStr(<<"e">>),
           message |-> JStr(<<"m">>)]),
     JObj([name |-> JStr(B1)]),
     JObj([name |-> JStr(B2)]),
     JObj([Id |-> JStr(<<"i">>), Key |-> JStr(B1 \o <<"/">> \o PathY)]),
     BucketJson(B1),
     JArr(<<>>),
     JArr(<<BucketJson(B1), BucketJson(B2)>>),
     JObj([signedURL |-> JStr(<<"/", "s">>)]),
     JArr(<<JObj([signedURL |-> JStr(<<"/", "s">>)]),
            JObj([signedURL |-> JStr(<<"/", "r">>)])>>),
     JObj([url |-> JStr(<<"/", "u">>), token |-> JStr(TokenT)])}

\* A file of a bucket as the service lists it.
FileJson(name) ==
    JObj([name |-> JStr(name), id |-> JStr(<<"i">>),
          updated_at |-> JStr(<<"u">>), created_at |-> JStr(<<"c">>),
          last_accessed_at |-> JStr(<<"l">>),
          metadata |->
              JObj([eTag |-> JStr(<<"e">>), size |-> JNum(2),
                    mimetype |-> JStr(<<"a", "/", "b">>),
                    cacheControl |-> JStr(<<"n">>),
                    lastModified |-> JStr(<<"m">>), contentLength |-> JNum(2),
                    httpStatusCode |-> JNum(200)])])

\* The bodies a server answers a list_files with, beside the TextBodies:
\* a list of two files.
FileListBodies == {JArr(<<FileJson(PathY), FileJson(PathX)>>)}

\* The bodies of a download: text, bytes that are no UTF-8, a two-byte
\* character, nothing.
ByteBodies == {<<104, 105>>, <<255, 104>>, <<195, 169>>, <<>>}

NoCall == [op |-> "none"]
NoResp == [t |-> "none"]

\* The pieces the URLs given to extract_token are made of, and the URLs: at
\* most MaxUrlAtoms pieces, one after the other.
UrlAtoms ==
    {<<"p">>, <<"x">>, <<"?">>, <<"&">>, TOKEN_PREFIX,
     TOKEN_PREFIX \o <<"a">>, TOKEN_PREFIX \o <<"b">>}

RECURSIVE UrlsOf(_)
UrlsOf(n) ==
    IF n = 0 THEN {<<>>}
    ELSE UrlsOf(n - 1) \cup {u \o a : u \in UrlsOf(n - 1), a \in UrlAtoms}

UrlInputs == UrlsOf(MaxUrlAtoms)

\* The callers that share the client, each with one call at a time.
TaskIds == {1, 2}

\* A caller with no call under way, and all of them so.
IdleTask ==
    [pc |-> "idle", call |-> NoCall, headers |-> None, sent |-> <<>>,
     resp |-> NoResp, result |-> None]
NoTasks == [t \in TaskIds |-> IdleTask]

----------------------------------------------------------------------------
(* The storage service the requests go to: the buckets and the objects it  *)
(* holds. It is no part of the repository: it answers a request by its     *)
(* method, URL and body (and, for an upload, the x-upsert header) the way  *)
(* the specification and the tests expect of it.                           *)

\* moved is the service's record of its latest moves, two at most, with
\* no other write of an object between or after them; copied is its record
\* of its latest copy, with no other write of an object after it.
NoServer ==
    [buckets |-> <<>>, deleted |-> {}, objects |-> <<>>, moved |-> <<>>,
     copied |-> <<>>]

\* The service's error document.
ErrorDoc(status, message) ==
    JObj([statusCode |-> JStr(FormatU64(status)), error |-> JStr(message),
          message |-> JStr(message)])

BUCKET_NOT_FOUND == <<"B", "u", "c", "k", "e", "t", " ", "n", "o", "t", " ", "f", "o", "u", "n", "d">>
MessageDoc(message) == JObj([message |-> JStr(message)])

Answer(status, body, srv) == [status |-> status, body |-> body, server |-> srv]

\* A bucket as the service returns it.
ServerBucketJson(id, b) ==
    JObj([id |-> JStr(id), name |-> JStr(b.name), owner |-> JStr(<<>>),
          public |-> JBool(b.public), file_size_limit |-> b.file_size_limit,
          allowed_mime_types |-> b.allowed_mime_types,
          created_at |-> JStr(<<"c">>), updated_at |-> JStr(<<"u">>)])

OBJECT_NOT_FOUND == <<"O", "b", "j", "e", "c", "t", " ", "n", "o", "t", " ", "f", "o", "u", "n", "d">>
ALREADY_EXISTS == <<"D", "u", "p", "l", "i", "c", "a", "t", "e">>
SUCCESSFULLY_MOVED == <<"S", "u", "c", "c", "e", "s", "s", "f", "u", "l", "l", "y", " ", "m", "o", "v", "e", "d">>

\* The key of an object: its bucket, a slash, its path in the bucket.
ObjectKey(bucket, path) == bucket \o <<"/">> \o path

\* The objects the service holds after it stored data at key.
PutObject(objects, key, data) ==
    [k \in DOMAIN objects \cup {key} |-> IF k = key THEN data ELSE objects[k]]

\* The objects the service holds after it dropped key.
DropObject(objects, key) == [k \in DOMAIN objects \ {key} |-> objects[k]]

\* An object as the service names it in its answer to an upload or a copy.
ObjectDoc(key) == JObj([Id |-> JStr(<<"i">>), Key |-> JStr(key)])

\* The body of the answer to a GET of an object the service does not hold,
\* as bytes: "{}".
NOT_FOUND_BYTES == <<123, 125>>

\* What the service answers to a request on an object, and what it holds
\* afterwards. {scheme}//{host}/storage/v1/object/{bucket}/{path} is one
\* object, .../object/copy and .../object/move take the keys in the body.
\* A copy writes its destination; a move needs a free destination; an upload
\* (POST) needs a free key unless it says x-upsert: true; an update (PUT)
\* needs the object. The service of the model renders no images.
ObjectAnswer(srv, req) ==
    LET segs == SplitSeq(req.url, "/")
        verb == segs[7]
        held == DOMAIN srv.objects
        o == req.body.o
        src == ObjectKey(o.bucketId.s, o.sourceKey.s)
        dst == ObjectKey(o.destinationBucket.s, o.destinationKey.s)
        key == ObjectKey(segs[7], segs[8])
        upsert == X_UPSERT \in DOMAIN req.headers
                    /\ req.headers[X_UPSERT] = <<"t", "r", "u", "e">>
        notFound == Answer(404, ErrorDoc(404, OBJECT_NOT_FOUND), srv)
        duplicate == Answer(409, ErrorDoc(409, ALREADY_EXISTS), srv)
    IN  IF segs[6] # <<"o", "b", "j", "e", "c", "t">>
        THEN IF req.method = "GET" THEN Answer(404, NOT_FOUND_BYTES, srv)
             ELSE notFound
        ELSE IF Len(segs) = 7 /\ req.method = "POST"
                /\ verb = <<"c", "o", "p", "y">>
        THEN IF src \notin held \/ o.destinationBucket.s \notin DOMAIN srv.buckets
             THEN notFound
             ELSE Answer(200, ObjectDoc(dst),
                         [srv EXCEPT !.objects =
                                         PutObject(@, dst, srv.objects[src]),
                                     !.moved = <<>>,
                                     !.copied =
                                         <<[src |-> src, dst |-> dst,
                                            copyMetadata |-> o.copyMetadata,
                                            before |-> srv.objects]>>])
        ELSE IF Len(segs) = 7 /\ req.method = "POST"
                /\ verb = <<"m", "o", "v", "e">>
        THEN IF src \notin held \/ o.destinationBucket.s \notin DOMAIN srv.buckets
             THEN notFound
             ELSE IF dst \in held
             THEN duplicate
             ELSE Answer(200, MessageDoc(SUCCESSFULLY_MOVED),
                         [srv EXCEPT !.objects =
                             DropObject(PutObject(@, dst, srv.objects[src]),
                                        src),
                                     !.moved =
                             (IF @ = <<>> THEN <<>> ELSE <<@[Len(@)]>>)
                                \o <<[src |-> src, dst |-> dst,
                                      before |-> srv.objects]>>,
                                     !.copied = <<>>])
        ELSE IF Len(segs) # 8
        THEN notFound
        ELSE IF req.method = "GET"
        THEN IF key \in held THEN Answer(200, srv.objects[key], srv)
             ELSE Answer(404, NOT_FOUND_BYTES, srv)
        ELSE IF req.method = "POST"
        THEN IF segs[7] \notin DOMAIN srv.buckets THEN notFound
             ELSE IF key \in held /\ ~upsert THEN duplicate
             ELSE Answer(200, ObjectDoc(key),
                         [srv EXCEPT !.objects = PutObject(@, key, req.body.b),
                                     !.moved = <<>>, !.copied = <<>>])
        ELSE IF key \notin held
        THEN notFound
        ELSE IF req.method = "PUT"
        THEN Answer(200, ObjectDoc(key),
                    [srv EXCEPT !.objects = PutObject(@, key, req.body.b),
                                !.moved = <<>>, !.copied = <<>>])
        ELSE IF req.method = "DELETE"
        THEN Answer(200, MessageDoc(<<"S", "u", "c", "c", "e", "s", "s", "f", "u", "l", "l", "y", " ", "d", "e", "l", "e", "t", "e", "d">>),
                    [srv EXCEPT !.objects = DropObject(@, key),
                                !.moved = <<>>, !.copied = <<>>])
        ELSE notFound

\* What the service answers to request req, and what it holds afterwards.
\* {scheme}//{host}/storage/v1/bucket is the collection of buckets and
\* {scheme}//{host}/storage/v1/bucket/{id} one bucket; every other URL is
\* a request on an object.
ServerAnswer(srv, req) ==
    LET segs == SplitSeq(req.url, "/")
        bucketRoute == Len(segs) >= 6 /\ segs[6] = <<"b", "u", "c", "k", "e", "t">>
        id == segs[7]
        o == req.body.o
        notFound == Answer(404, ErrorDoc(404, BUCKET_NOT_FOUND), srv)
    IN  IF Len(segs) >= 7 /\ ~bucketRoute
        THEN ObjectAnswer(srv, req)
        ELSE IF bucketRoute /\ Len(segs) = 6 /\ req.method = "POST"
        THEN IF o.id.s \in DOMAIN srv.buckets
             THEN Answer(409, ErrorDoc(409, <<"D", "u", "p", "l", "i", "c", "a", "t", "e">>), srv)
             ELSE Answer(200, JObj([name |-> o.name]),
                         [srv EXCEPT !.buckets =
                             [i \in DOMAIN srv.buckets \cup {o.id.s} |->
                                 IF i = o.id.s
                                 THEN [name |-> o.name.s, public |-> o.public.b,
                                       allowed_mime_types |-> o.allowed_mime_types,
                                       file_size_limit |-> o.file_size_limit]
                                 ELSE srv.buckets[i]]])
        ELSE IF ~(bucketRoute /\ Len(segs) = 7) \/ id \notin DOMAIN srv.buckets
        THEN notFound
        ELSE IF req.method = "DELETE"
        THEN Answer(200, MessageDoc(<<"S", "u", "c", "c", "e", "s", "s", "f", "u", "l", "l", "y", " ", "d", "e", "l", "e", "t", "e", "d">>),
                    [srv EXCEPT !.buckets = [i \in DOMAIN @ \ {id} |-> @[i]],
                                !.deleted = @ \cup {id}])
        ELSE IF req.method = "PUT"
        THEN Answer(200, MessageDoc(<<"S", "u", "c", "c", "e", "s", "s", "f", "u", "l", "l", "y", " ", "u", "p", "d", "a", "t", "e", "d">>),
                    [srv EXCEPT !.buckets[id] =
                        [@ EXCEPT !.public = o.public.b,
                                  !.allowed_mime_types = o.allowed_mime_types,
                                  !.file_size_limit = o.file_size_limit]])
        ELSE IF req.method = "GET"
        THEN Answer(200, ServerBucketJson(id, srv.buckets[id]), srv)
        ELSE notFound

----------------------------------------------------------------------------
(* The state machine.                                                      *)

Init ==
    /\ client = NoClient
    /\ ctor = None
    /\ pc = "idle"
    /\ call = NoCall
    /\ sent = <<>>
    /\ resp = NoResp
    /\ result = None
    /\ server = NoServer
    /\ tasks = NoTasks

NewWith(urls) ==
    \E project_url \in urls, api_key \in ApiKeys :
        /\ pc = "idle" /\ ~client.live
        /\ client' = new(project_url, api_key)
        /\ ctor' = Some([project_url |-> project_url, api_key |-> api_key])
        /\ call' = [op |-> "new",
                    args |-> [project_url |-> project_url, api_key |-> api_key]]
        /\ result' = Some(Ok(client'))
        /\ sent' = <<>> /\ resp' = NoResp /\ UNCHANGED <<server, tasks>>
        /\ pc' = "done"

New == NewWith(ProjectUrls)

\* StorageClient::new with any of the RequestUrls.
NewAnyUrl == NewWith(RequestUrls)

NewFromEnv ==
    \E env \in Envs :
        LET r == new_from_env(env)
        IN  /\ pc = "idle" /\ ~client.live
            /\ client' = IF r.ok THEN r.v ELSE NoClient
            /\ ctor' = IF r.ok
                       THEN Some([project_url |-> env.SUPABASE_URL.v,
                                  api_key |-> env.SUPABASE_API_KEY.v])
                       ELSE None
            /\ call' = [op |-> "new_from_env", args |-> [env |-> env]]
            /\ result' = Some(r)
            /\ sent' = <<>> /\ resp' = NoResp /\ UNCHANGED <<server, tasks>>
            /\ pc' = "done"

\* insert_header takes the client by value: no call borrows it meanwhile.
InsertHeader ==
    \E header_name \in DefaultHeaderNames,
       header_value \in DefaultHeaderValues :
        LET r == insert_header(client, header_name, header_value)
        IN  /\ pc = "idle" /\ client.live
            /\ \A t \in TaskIds : tasks[t] = IdleTask
            /\ Cardinality(DOMAIN client.headers \cup {header_name})
                  <= MaxDefaultHeaders
            /\ call' = [op |-> "insert_header",
                        args |-> [header_name |-> header_name,
                                  header_value |-> header_value]]
            /\ IF r.panic
               THEN /\ client' = NoClient
                    /\ pc' = "panicked"
                    /\ result' = None
               ELSE /\ client' = r.v
                    /\ pc' = "done"
                    /\ result' = Some(Ok(r.v))
            /\ sent' = <<>> /\ resp' = NoResp
            /\ UNCHANGED <<ctor, server, tasks>>

\* The request sent a second time.
Start_twice(op, args, r) ==
    /\ call' = [op |-> op, args |-> args]
    /\ resp' = NoResp
    /\ IF r.ok
       THEN sent' = <<r.v, r.v>> /\ pc' = "awaiting" /\ result' = None
       ELSE sent' = <<>> /\ pc' = "done" /\ result' = Some(r)
    /\ UNCHANGED <<client, ctor, server, tasks>>

\* A network operation up to the await of its response: r is the request it
\* built, or the error building it ended with.
Start(op, args, r) ==
    /\ call' = [op |-> op, args |-> args]
    /\ resp' = NoResp
    /\ IF r.ok
       THEN sent' = <<r.v>> /\ pc' = "awaiting" /\ result' = None
       ELSE sent' = <<>> /\ pc' = "done" /\ result' = Some(r)
    /\ UNCHANGED <<client, ctor, server, tasks>>

\* A call can start: there is a client and no call is under way.
Callable == pc = "idle" /\ client.live

CreateBucket ==
    \E name \in Names, id \in {None} \cup {Some(n) : n \in Names},
       public \in BOOLEAN, allowed_mime_types \in MimeInputs,
       file_size_limit \in SizeInputs :
        /\ Callable
        /\ Start("create_bucket",
              [name |-> name, id |-> id, public |-> public,
               allowed_mime_types |-> allowed_mime_types,
               file_size_limit |-> file_size_limit],
              create_bucket_request(client, name, id, public,
                                    allowed_mime_types, file_size_limit))

DeleteBucket ==
    \E id \in Names :
        /\ Callable
        /\ Start("delete_bucket", [id |-> id], delete_bucket_request(client, id))

GetBucket ==
    \E bucket_id \in Names :
        /\ Callable
        /\ Start("get_bucket", [bucket_id |-> bucket_id],
              get_bucket_request(client, bucket_id))

ListBuckets ==
    /\ Callable
    /\ Start("list_buckets", <<>>, list_buckets_request(client))

UpdateBucket ==
    \E id \in {B1}, public \in BOOLEAN, allowed_mime_types \in MimeInputs,
       file_size_limit \in SizeInputs :
        /\ Callable
        /\ Start("update_bucket",
              [id |-> id, public |-> public,
               allowed_mime_types |-> allowed_mime_types,
               file_size_limit |-> file_size_limit],
              update_bucket_request(client, id, public, allowed_mime_types,
                                    file_size_limit))

EmptyBucket ==
    \E id \in {B1} :
        /\ Callable
        /\ Start("empty_bucket", [id |-> id], empty_bucket_request(client, id))

ReplaceFile ==
    \E options \in FileOptionsInputs :
        /\ Callable
        /\ Start("replace_file",
              [bucket_id |-> B1, data |-> DataBytes, path |-> PathX,
               options |-> options],
              replace_file_request(client, B1, DataBytes, PathX, options))

UpdateFile ==
    \E options \in FileOptionsInputs :
        /\ Callable
        /\ Start("update_file",
              [bucket_id |-> B1, data |-> DataBytes, path |-> PathX,
               options |-> options],
              update_file_request(client, B1, DataBytes, PathX, options))

UploadFile ==
    \E data \in DataInputs, options \in FileOptionsInputs :
        /\ Callable
        /\ Start("upload_file",
              [bucket_id |-> B1, data |-> data, path |-> PathX,
               options |-> options],
              upload_file_request(client, B1, data, PathX, options))

DownloadFile ==
    \E options \in DownloadOptionsInputs :
        /\ Callable
        /\ Start("download_file",
              [bucket_id |-> B1, path |-> PathX, options |-> options],
              download_file_request(client, B1, PathX, options))

DeleteFile ==
    /\ Callable
    /\ Start("delete_file", [bucket_id |-> B1, path |-> PathX],
          delete_file_request(client, B1, PathX))

ListFiles ==
    \E path \in {None, Some(PathX)}, options \in FileSearchOptionsInputs :
        /\ Callable
        /\ Start("list_files",
              [bucket_id |-> B1, path |-> path, options |-> options],
              list_files_request(client, B1, path, options))

CopyFile ==
    \E to_bucket \in {None, Some(B2)}, to_path \in {None, Some(PathY)},
       copy_metadata \in BOOLEAN :
        /\ Callable
        /\ Start("copy_file",
              [from_bucket |-> B1, to_bucket |-> to_bucket,
               from_path |-> PathX, to_path |-> to_path,
               copy_metadata |-> copy_metadata],
              copy_file_request(client, B1, to_bucket, PathX, to_path,
                                copy_metadata))

CreateSignedUrl ==
    \E options \in DownloadOptionsInputs :
        /\ Callable
        /\ Start("create_signed_url",
              [bucket_id |-> B1, path |-> PathX, expires_in |-> 60,
               options |-> options],
              create_signed_url_request(client, B1, PathX, 60, options))

CreateMultipleSignedUrls ==
    \E paths \in {<<>>, <<PathX, PathY>>} :
        /\ Callable
        /\ Start("create_multiple_signed_urls",
              [bucket_id |-> B1, paths |-> paths, expires_in |-> 60],
              create_multiple_signed_urls_request(client, B1, paths, 60))

CreateSignedUploadUrl ==
    /\ Callable
    /\ Start("create_signed_upload_url", [bucket_id |-> B1, path |-> PathX],
          create_signed_upload_url_request(client, B1, PathX))

UploadToSignedUrl ==
    \E options \in FileOptionsInputs :
        /\ Callable
        /\ Start("upload_to_signed_url",
              [bucket_id |-> B1, token |-> TokenT, data |-> DataBytes,
               path |-> PathX, options |-> options],
              upload_to_signed_url_request(client, B1, TokenT, DataBytes,
                                           PathX, options))

MoveFile ==
    \E to_bucket \in {None, Some(B2)}, from_path \in {PathX, PathY} :
        \E to_path \in {PathX, PathY} \ {from_path} :
            /\ Callable
            /\ Start("move_file",
                  [from_bucket |-> B1, to_bucket |-> to_bucket,
                   from_path |-> from_path, to_path |-> to_path],
                  move_file_request(client, B1, to_bucket, from_path, to_path))

\* get_public_url awaits nothing: the call is over in one step.
GetPublicUrl ==
    \E path \in {PathX, PathSpace}, options \in PublicUrlOptionsInputs :
        /\ Callable
        /\ call' = [op |-> "get_public_url",
                    args |-> [bucket_id |-> B1, path |-> path,
                              options |-> options]]
        /\ result' = Some(get_public_url(client, B1, path, options))
        /\ sent' = <<>> /\ resp' = NoResp
        /\ pc' = "done"
        /\ UNCHANGED <<client, ctor, server, tasks>>

\* What an operation makes of the status and the body of its response.
Response(op, self, res_status, res_body) ==
    CASE op = "create_bucket" ->
            create_bucket_response(self, res_status, res_body)
      [] op = "delete_bucket" ->
            delete_bucket_response(self, res_status, res_body)
      [] op = "get_bucket" -> get_bucket_response(self, res_status, res_body)
      [] op = "list_buckets" ->
            list_buckets_response(self, res_status, res_body)
      [] op = "update_bucket" ->
            update_bucket_response(self, res_status, res_body)
      [] op = "empty_bucket" ->
            empty_bucket_response(self, res_status, res_body)
      [] op \in {"replace_file", "update_file", "upload_file"} ->
            upload_or_update_file_response(self, res_status, res_body)
      [] op = "download_file" ->
            download_file_response(self, res_status, res_body)
      [] op = "delete_file" -> delete_file_response(self, res_status, res_body)
      [] op = "list_files" -> list_files_response(self, res_status, res_body)
      [] op = "copy_file" -> copy_file_response(self, res_status, res_body)
      [] op = "create_signed_url" ->
            create_signed_url_response(self, res_status, res_body)
      [] op = "create_multiple_signed_urls" ->
            create_multiple_signed_urls_response(self, res_status, res_body)
      [] op = "create_signed_upload_url" ->
            create_signed_upload_url_response(self, res_status, res_body)
      [] op = "upload_to_signed_url" ->
            upload_to_signed_url_response(self, res_status, res_body)
      [] op = "move_file" -> move_file_response(self, res_status, res_body)

\* ".send().await?" fails: the transport's error is the call's result.
SendFails ==
    /\ pc = "awaiting"
    /\ resp' = [t |-> "SendError"]
    /\ result' = Some(Err(RequestError))
    /\ pc' = "done"
    /\ UNCHANGED <<client, ctor, server, call, sent, tasks>>

\* ".send().await?" yields the response: its status is read
\* ("res.status()") and the call waits for the body ("res.text().await",
\* "res.bytes().await"), of which nothing is known yet.
Status ==
    \E res_status \in Statuses :
        /\ pc = "awaiting"
        /\ resp' = [t |-> "Status", status |-> res_status, body |-> None]
        /\ pc' = "reading"
        /\ UNCHANGED <<client, ctor, server, call, sent, result, tasks>>

\* Reading the body ("res.text().await?", "res.bytes().await?") fails.
BodyFails ==
    /\ pc = "reading"
    /\ resp' = [t |-> "BodyError", status |-> resp.status]
    /\ result' = Some(Err(RequestError))
    /\ pc' = "done"
    /\ UNCHANGED <<client, ctor, server, call, sent, tasks>>

\* The bodies a response may carry: download_file reads its body as bytes,
\* every other operation as text.
BodiesOf(op) ==
    IF op = "download_file" THEN ByteBodies
    ELSE IF op = "list_files" THEN TextBodies \cup FileListBodies
    ELSE TextBodies

\* The body is read (the one the storage service sent, where the service is
\* part of the model), and the call makes its result of status and body.
Respond ==
    \E res_body \in IF pc = "reading" /\ resp.body.some THEN {resp.body.v}
                    ELSE BodiesOf(call.op) :
        /\ pc = "reading"
        /\ resp' = [t |-> "Response", status |-> resp.status,
                    body |-> res_body]
        /\ result' = Some(Response(call.op, client, resp.status, res_body))
        /\ pc' = "done"
        /\ UNCHANGED <<client, ctor, server, call, sent, tasks>>

\* The caller takes the result; the call's request and response are gone.
Return ==
    /\ pc = "done"
    /\ pc' = "idle"
    /\ call' = NoCall
    /\ sent' = <<>>
    /\ resp' = NoResp
    /\ result' = None
    /\ UNCHANGED <<client, ctor, server, tasks>>

Next ==
    \/ New
    \/ NewFromEnv
    \/ InsertHeader
    \/ CreateBucket
    \/ DeleteBucket
    \/ GetBucket
    \/ ListBuckets
    \/ UpdateBucket
    \/ EmptyBucket
    \/ ReplaceFile
    \/ UpdateFile
    \/ UploadFile
    \/ DownloadFile
    \/ DeleteFile
    \/ ListFiles
    \/ CopyFile
    \/ CreateSignedUrl
    \/ CreateMultipleSignedUrls
    \/ CreateSignedUploadUrl
    \/ UploadToSignedUrl
    \/ MoveFile
    \/ GetPublicUrl
    \/ SendFails
    \/ Status
    \/ BodyFails
    \/ Respond
    \/ Return

Spec == Init /\ [][Next]_vars

\* The network operations of a client made with any of the RequestUrls.
NextUrls ==
    \/ NewAnyUrl
    \/ InsertHeader
    \/ CreateBucket
    \/ DeleteBucket
    \/ GetBucket
    \/ ListBuckets
    \/ UpdateBucket
    \/ EmptyBucket
    \/ ReplaceFile
    \/ UpdateFile
    \/ UploadFile
    \/ DownloadFile
    \/ DeleteFile
    \/ ListFiles
    \/ CopyFile
    \/ CreateSignedUrl
    \/ CreateMultipleSignedUrls
    \/ CreateSignedUploadUrl
    \/ UploadToSignedUrl
    \/ MoveFile
    \/ SendFails
    \/ Status
    \/ BodyFails
    \/ Respond
    \/ Return

SpecUrls == Init /\ [][NextUrls]_vars

\* The storage service handles the request and its response arrives: the
\* status is read, the body the service sent is still to be read.
ServerRespond ==
    LET answer == ServerAnswer(server, sent[1])
    IN  /\ pc = "awaiting"
        /\ resp' = [t |-> "Status", status |-> answer.status,
                    body |-> Some(answer.body)]
        /\ server' = answer.server
        /\ pc' = "reading"
        /\ UNCHANGED <<client, ctor, call, sent, result, tasks>>

\* The bucket operations of a client against the storage service.
NextServer ==
    \/ New
    \/ CreateBucket
    \/ DeleteBucket
    \/ GetBucket
    \/ UpdateBucket
    \/ ServerRespond
    \/ Respond
    \/ Return

SpecServer == Init /\ [][NextServer]_vars

\* as_str, the Display form and String::from of a MimeType, and
\* extract_token, need no client: each call is over in one step.
Pure(op, args, r) ==
    /\ pc = "idle"
    /\ call' = [op |-> op, args |-> args]
    /\ result' = Some(r)
    /\ pc' = "done"
    /\ sent' = <<>>
    /\ resp' = NoResp
    /\ UNCHANGED <<client, ctor, server, tasks>>

AsStr == \E mime \in MimeValues : Pure("as_str", [mime |-> mime], as_str(mime))

Display ==
    \E mime \in MimeValues : Pure("to_string", [mime |-> mime], to_string(mime))

StringFrom ==
    \E mime \in MimeValues :
        Pure("String::from", [mime |-> mime], String_from(mime))

ExtractToken ==
    \E url \in UrlInputs :
        Pure("extract_token", [url |-> url], extract_token(url))

\* The functions of the crate that take no client.
NextFunctions ==
    \/ AsStr
    \/ Display
    \/ StringFrom
    \/ ExtractToken
    \/ Return

SpecFunctions == Init /\ [][NextFunctions]_vars

\* A bucket as create_bucket(name, None, false, None, None) makes it.
PlainBucket(name) ==
    [name |-> name, public |-> FALSE, allowed_mime_types |-> JNull,
     file_size_limit |-> JNull]

\* No client yet; the service holds the two buckets and no object.
InitObjects ==
    /\ client = NoClient
    /\ ctor = None
    /\ pc = "idle"
    /\ call = NoCall
    /\ sent = <<>>
    /\ resp = NoResp
    /\ result = None
    /\ server = [NoServer EXCEPT
                     !.buckets = [i \in Names |-> PlainBucket(i)]]
    /\ tasks = NoTasks

\* The object operations of a client against the storage service.
NextObjects ==
    \/ New
    \/ UploadFile
    \/ UpdateFile
    \/ DownloadFile
    \/ DeleteFile
    \/ CopyFile
    \/ MoveFile
    \/ ServerRespond
    \/ Respond
    \/ Return

SpecObjects == InitObjects /\ [][NextObjects]_vars

\* The calls the callers make concurrently: a create_bucket, an upload_file
\* that sets every header of the FileOptions, and one whose content type is
\* no legal header value.
TaskCalls ==
    {[op |-> "create_bucket",
      args |-> [name |-> B1, id |-> None, public |-> FALSE,
                allowed_mime_types |-> None, file_size_limit |-> None]],
     [op |-> "upload_file",
      args |-> [bucket_id |-> B1, data |-> DataBytes, path |-> PathX,
                options |->
                    Some(FileOptionsOf(Some(Duration(MaxCacheSecs, 0)),
                                       Some(<<"a", "/", "b">>), TRUE))]],
     [op |-> "upload_file",
      args |-> [bucket_id |-> B1, data |-> DataBytes, path |-> PathX,
                options |->
                    Some(FileOptionsOf(None, Some(<<"a", "\n">>), TRUE))]]}

\* What the service answers a concurrent call with.
TaskStatuses == {200, 404}
TaskBodies ==
    {JObj([name |-> JStr(B1)]),
     JObj([Id |-> JStr(<<"i">>), Key |-> JStr(B1 \o <<"/">> \o PathX)])}

\* The headers call c builds on the client self.
TaskHeadersOf(c, self) ==
    IF c.op = "create_bucket" THEN create_bucket_headers(self)
    ELSE upload_or_update_file_headers(self, c.args.options)

\* The request call c makes on the client self, or the error it ends with
\* before it sends one.
RequestOf(c, self) ==
    IF c.op = "create_bucket"
    THEN create_bucket_request(self, c.args.name, c.args.id, c.args.public,
                               c.args.allowed_mime_types,
                               c.args.file_size_limit)
    ELSE upload_file_request(self, c.args.bucket_id, c.args.data, c.args.path,
                             c.args.options)

\* Building the headers of a call in the client's own header map.
ClientAfterHeaders_in_place(self, headers) ==
    IF headers.ok THEN [self EXCEPT !.headers = headers.v] ELSE self

\* The client after a call built its headers: "&self" is read, the headers
\* are built on "self.headers.clone()".
ClientAfterHeaders(self, headers) == self

\* "let mut headers = self.headers.clone();": caller t starts a call, which
\* takes its copy of the default headers.
TaskClone(t) ==
    \E c \in TaskCalls :
        /\ pc = "idle" /\ client.live
        /\ tasks[t].pc = "idle"
        /\ tasks' = [tasks EXCEPT ![t] =
                        [IdleTask EXCEPT !.pc = "cloned", !.call = c,
                                         !.headers = Some(client.headers)]]
        /\ UNCHANGED <<client, ctor, pc, call, sent, resp, result, server>>

\* The call of caller t inserts its headers into its copy; the first value
\* that is no legal header value ends the call.
TaskHeaders(t) ==
    LET k == tasks[t]
        headers == TaskHeadersOf(k.call,
                                 [client EXCEPT !.headers = k.headers.v])
    IN  /\ k.pc = "cloned"
        /\ tasks' = [tasks EXCEPT ![t] =
                        IF headers.ok
                        THEN [k EXCEPT !.pc = "built",
                                       !.headers = Some(headers.v)]
                        ELSE [k EXCEPT !.pc = "done",
                                       !.result = Some(headers)]]
        /\ client' = ClientAfterHeaders(client, headers)
        /\ UNCHANGED <<ctor, pc, call, sent, resp, result, server>>

\* The call of caller t makes its method, URL and body of the client and its
\* arguments and sends them with the headers it built, up to the await.
TaskSend(t) ==
    LET k == tasks[t]
        made == RequestOf(k.call, client)
        r == IF made.ok
             THEN Send(Ok(k.headers.v), made.v.method, made.v.url, made.v.body)
             ELSE made
    IN  /\ k.pc = "built"
        /\ tasks' = [tasks EXCEPT ![t] =
                        IF r.ok
                        THEN [k EXCEPT !.pc = "awaiting", !.sent = <<r.v>>]
                        ELSE [k EXCEPT !.pc = "done", !.result = Some(r)]]
        /\ UNCHANGED <<client, ctor, pc, call, sent, resp, result, server>>

\* ".send().await?" of caller t fails.
TaskSendFails(t) ==
    /\ tasks[t].pc = "awaiting"
    /\ tasks' = [tasks EXCEPT ![t].pc = "done",
                              ![t].resp = [t |-> "SendError"],
                              ![t].result = Some(Err(RequestError))]
    /\ UNCHANGED <<client, ctor, pc, call, sent, resp, result, server>>

\* ".send().await?" of caller t yields the response: its status is read and
\* the call waits for the body.
TaskStatus(t) ==
    \E res_status \in TaskStatuses :
        /\ tasks[t].pc = "awaiting"
        /\ tasks' = [tasks EXCEPT
                        ![t].pc = "reading",
                        ![t].resp = [t |-> "Status", status |-> res_status,
                                     body |-> None]]
        /\ UNCHANGED <<client, ctor, pc, call, sent, resp, result, server>>

\* Reading the body ("res.text().await?") of caller t fails.
TaskBodyFails(t) ==
    /\ tasks[t].pc = "reading"
    /\ tasks' = [tasks EXCEPT
                    ![t].pc = "done",
                    ![t].resp = [t |-> "BodyError",
                                 status |-> tasks[t].resp.status],
                    ![t].result = Some(Err(RequestError))]
    /\ UNCHANGED <<client, ctor, pc, call, sent, resp, result, server>>

\* The body is read, and the call of caller t makes its result of status
\* and body.
TaskRespond(t) ==
    \E res_body \in TaskBodies :
        /\ tasks[t].pc = "reading"
        /\ tasks' = [tasks EXCEPT
                        ![t].pc = "done",
                        ![t].resp = [t |-> "Response",
                                     status |-> tasks[t].resp.status,
                                     body |-> res_body],
                        ![t].result = Some(Response(tasks[t].call.op, client,
                                                    tasks[t].resp.status,
                                                    res_body))]
        /\ UNCHANGED <<client, ctor, pc, call, sent, resp, result, server>>

\* Caller t takes the result of its call.
TaskReturn(t) ==
    /\ tasks[t].pc = "done"
    /\ tasks' = [tasks EXCEPT ![t] = IdleTask]
    /\ UNCHANGED <<client, ctor, pc, call, sent, resp, result, server>>

\* Callers sharing one client, their calls interleaved step by step.
NextConcurrent ==
    \/ New
    \/ InsertHeader
    \/ Return
    \/ \E t \in TaskIds : TaskClone(t)
    \/ \E t \in TaskIds : TaskHeaders(t)
    \/ \E t \in TaskIds : TaskSend(t)
    \/ \E t \in TaskIds : TaskSendFails(t)
    \/ \E t \in TaskIds : TaskStatus(t)
    \/ \E t \in TaskIds : TaskBodyFails(t)
    \/ \E t \in TaskIds : TaskRespond(t)
    \/ \E t \in TaskIds : TaskReturn(t)

SpecConcurrent == Init /\ [][NextConcurrent]_vars

----------------------------------------------------------------------------
(* Helpers of the properties.                                              *)

NetworkOps ==
    {"create_bucket", "delete_bucket", "get_bucket", "list_buckets",
     "update_bucket", "empty_bucket", "upload_file", "update_file",
     "replace_file", "download_file", "delete_file", "list_files",
     "copy_file", "move_file", "create_signed_url",
     "create_multiple_signed_urls", "create_signed_upload_url",
     "upload_to_signed_url"}

\* The operations that deserialize the body of their response.
ParsingOps == NetworkOps \ {"delete_bucket", "download_file"}

\* The type an operation deserializes its response into.
SuccessType(op) ==
    CASE op = "create_bucket" -> CreateBucketResponseT
      [] op = "get_bucket" -> BucketT
      [] op = "list_buckets" -> BucketsT
      [] op \in {"update_bucket", "empty_bucket", "delete_file", "move_file"} ->
            BucketResponseT
      [] op \in {"upload_file", "update_file", "replace_file"} ->
            ObjectResponseT
      [] op = "list_files" -> VecT(FileObjectT)
      [] op = "copy_file" -> CopyFileResponseT
      [] op = "create_signed_url" -> SignedUrlResponseT
      [] op = "create_multiple_signed_urls" -> VecT(SignedUrlResponseT)
      [] op = "create_signed_upload_url" -> SignedUploadUrlResponseT
      [] op = "upload_to_signed_url" -> UploadToSignedUrlResponseT

\* The headers an operation builds for client self and arguments args.
HeadersOf(op, self, args) ==
    CASE op = "create_bucket" -> create_bucket_headers(self)
      [] op = "delete_bucket" -> delete_bucket_headers(self)
      [] op = "get_bucket" -> get_bucket_headers(self)
      [] op = "list_buckets" -> list_buckets_headers(self)
      [] op = "update_bucket" -> update_bucket_headers(self)
      [] op = "empty_bucket" -> empty_bucket_headers(self)
      [] op \in {"upload_file", "update_file", "replace_file"} ->
            upload_or_update_file_headers(self, args.options)
      [] op = "download_file" -> download_file_headers(self)
      [] op = "delete_file" -> delete_file_headers(self)
      [] op = "list_files" -> list_files_headers(self)
      [] op = "copy_file" -> copy_file_headers(self)
      [] op = "create_signed_url" -> create_signed_url_headers(self)
      [] op = "create_multiple_signed_urls" ->
            create_multiple_signed_urls_headers(self)
      [] op = "create_signed_upload_url" ->
            create_signed_upload_url_headers(self)
      [] op = "upload_to_signed_url" ->
            upload_to_signed_url_headers(self, args.options)
      [] op = "move_file" -> move_file_headers(self)

\* A header map restricted to the names in ns.
Restrict(h, ns) == [n \in (DOMAIN h) \cap ns |-> h[n]]

\* The last call is a network operation that issued a request.
Issued == call.op \in NetworkOps /\ Len(sent) > 0

\* The last call is a network operation whose response arrived whole.
Answered == pc = "done" /\ call.op \in NetworkOps /\ resp.t = "Response"

\* The text of a response body as the operation reads it.
BodyText(op, body) ==
    IF op = "download_file" THEN from_utf8_lossy(body) ELSE body

IsStorageError(r, status, message) ==
    /\ ~r.ok
    /\ r.e.kind = "StorageError"
    /\ r.e.status = status
    /\ r.e.message = message

----------------------------------------------------------------------------
(* The properties.                                                         *)

\* C1: whenever a network operation receives a response whose status is not
\* 2xx, whatever its body, the call returns StorageError carrying that status
\* and the text of that body; it never returns Ok.
C1_NonSuccessIsStorageError ==
    (Answered /\ ~is_success(resp.status)) =>
        IsStorageError(result.v, resp.status, BodyText(call.op, resp.body))

\* C2: whenever an operation that parses its response receives a body that
\* does not deserialize into the operation's success type, the call returns
\* StorageError carrying the response's status and its body verbatim, and
\* never SerdeError, whether or not the status is 2xx.
C2_ParseFailureIsStorageError ==
    (/\ Answered
     /\ call.op \in ParsingOps
     /\ ~Deserializes(SuccessType(call.op), resp.body)) =>
        IsStorageError(result.v, resp.status, resp.body)

\* A 2xx response to create_bucket whose body is the service's error
\* document came back as StorageError with the 2xx status.
C2_Witness ==
    /\ Answered
    /\ call.op = "create_bucket"
    /\ is_success(resp.status)
    /\ resp.body.t = "obj"
    /\ ~Deserializes(SuccessType(call.op), resp.body)
    /\ IsStorageError(result.v, resp.status, resp.body)

\* The headers the last call's operation sets when the client has no default
\* header at all: the operation's own headers.
OwnHeaders ==
    HeadersOf(call.op, [client EXCEPT !.headers = EmptyHeaders], call.args)

\* The same, on a client that keeps its default Authorization (so that the
\* operation builds exactly the values it builds in the call).
OwnHeadersBesideAuthorization ==
    HeadersOf(call.op,
              [client EXCEPT !.headers = Restrict(client.headers,
                                                  {AUTHORIZATION})],
              call.args)

\* C3 as stated: in every request, a default header (n, v) is carried as
\* n: v when the operation sets no header named n, and the operation's own
\* value is carried when the operation sets n itself, Authorization included.
C3_OperationHeadersWin ==
    (Issued /\ OwnHeaders.ok) =>
        \A n \in DOMAIN client.headers :
            /\ n \in DOMAIN sent[1].headers
            /\ sent[1].headers[n] =
                  IF n \in DOMAIN OwnHeaders.v THEN OwnHeaders.v[n]
                  ELSE client.headers[n]

\* C3, amended: in every request, a default header (n, v) is carried as n: v
\* when the operation sets no header named n or when n is Authorization (the
\* operation sets its Bearer value only when no default Authorization is
\* installed); for apikey, Content-Type, Cache-Control and x-upsert the
\* operation's own value is carried when the operation sets n itself.
C3_OperationHeadersWinButAuthorization ==
    Issued =>
        /\ OwnHeadersBesideAuthorization.ok
        /\ \A n \in DOMAIN client.headers :
            /\ n \in DOMAIN sent[1].headers
            /\ sent[1].headers[n] =
                  IF n # AUTHORIZATION
                        /\ n \in DOMAIN OwnHeadersBesideAuthorization.v
                  THEN OwnHeadersBesideAuthorization.v[n]
                  ELSE client.headers[n]

\* A request of create_bucket on a client with a default Authorization and a
\* default Content-Type: it carries the default Authorization and the
\* operation's own Content-Type.
C3_Witness ==
    /\ Issued
    /\ call.op = "create_bucket"
    /\ DOMAIN client.headers = {AUTHORIZATION, CONTENT_TYPE}
    /\ sent[1].headers[AUTHORIZATION] = client.headers[AUTHORIZATION]
    /\ sent[1].headers[AUTHORIZATION] # BearerOf(client.api_key)
    /\ sent[1].headers[CONTENT_TYPE] = APPLICATION_JSON
    /\ client.headers[CONTENT_TYPE] # APPLICATION_JSON

\* C4: every request of a bucket mutation (create_bucket, delete_bucket,
\* update_bucket, empty_bucket) carries an apikey header whose value is the
\* client's api_key.
C4_BucketMutationsSendApiKey ==
    (Issued /\ call.op \in {"create_bucket", "delete_bucket", "update_bucket",
                            "empty_bucket"}) =>
        /\ HEADER_API_KEY \in DOMAIN sent[1].headers
        /\ sent[1].headers[HEADER_API_KEY] = client.api_key

\* C5: on a client with no default Authorization header, every request of
\* every network operation carries Authorization: "Bearer " followed by the
\* client's api_key, whatever the operation's arguments are.
C5_BearerAuthorization ==
    (Issued /\ AUTHORIZATION \notin DOMAIN client.headers) =>
        /\ AUTHORIZATION \in DOMAIN sent[1].headers
        /\ sent[1].headers[AUTHORIZATION] = BEARER \o client.api_key

\* An upload with options that set Content-Type, Cache-Control and x-upsert,
\* on a client with other default headers, carries the Bearer value.
C5_Witness ==
    /\ Issued
    /\ call.op = "upload_to_signed_url"
    /\ call.args.options.some
    /\ call.args.options.v.content_type.some
    /\ DOMAIN client.headers = {HEADER_API_KEY, "x-custom"}
    /\ sent[1].headers[AUTHORIZATION] = BEARER \o client.api_key

\* C6: every request of get_bucket, of list_buckets and of every object
\* operation carries an apikey header whose value is the client's api_key.
C6_ReadsAndObjectOpsSendApiKey ==
    (Issued /\ call.op \in NetworkOps \ {"create_bucket", "delete_bucket",
                                         "update_bucket", "empty_bucket"}) =>
        /\ HEADER_API_KEY \in DOMAIN sent[1].headers
        /\ sent[1].headers[HEADER_API_KEY] = client.api_key

\* C7: insert_header called with a value that is no legal header value
\* returns Error::InvalidHeaderValue to its caller; it does not panic and
\* yields no client carrying the value.
C7_InsertHeaderReportsInvalidValue ==
    (call.op = "insert_header"
        /\ ~IsLegalHeaderValue(call.args.header_value)) =>
        /\ pc # "panicked"
        /\ result.some
        /\ ~result.v.ok
        /\ result.v.e = InvalidHeaderValue

\* A step that is a call of insert_header.
InsertHeaderStep == pc = "idle" /\ call'.op = "insert_header"

C8_Step ==
    /\ client'.live =>
          /\ ctor'.some
          /\ client'.project_url = ctor'.v.project_url
          /\ client'.api_key = ctor'.v.api_key
    /\ (client.live /\ client'.live) =>
          /\ ctor' = ctor
          /\ client'.project_url = client.project_url
          /\ client'.api_key = client.api_key
    /\ (client.live /\ client'.live /\ ~InsertHeaderStep) =>
          client'.headers = client.headers
    /\ (InsertHeaderStep /\ IsLegalHeaderValue(call'.args.header_value)) =>
          /\ client'.live
          /\ DOMAIN client'.headers =
                DOMAIN client.headers \cup {call'.args.header_name}
          /\ \A n \in DOMAIN client'.headers :
                client'.headers[n] =
                    IF n = call'.args.header_name
                    THEN call'.args.header_value
                    ELSE client.headers[n]

\* C8: the client's project_url and api_key are, after every step, the values
\* given at construction; no operation but insert_header changes the default
\* headers; insert_header(n, v) with a legal v yields a client whose default
\* headers map n to v, replacing an earlier value for n, and are otherwise
\* the ones before, with project_url and api_key unchanged.
C8_ClientImmutability == [][C8_Step]_vars

\* insert_header has replaced the value of one of two default headers, on a
\* client that still has the construction's project_url and api_key.
C8_Witness ==
    /\ pc = "done"
    /\ call.op = "insert_header"
    /\ Cardinality(DOMAIN client.headers) = 2
    /\ client.headers[call.args.header_name] = call.args.header_value
    /\ \E n \in DOMAIN client.headers :
          /\ n # call.args.header_name
          /\ client.headers[n] # call.args.header_value
    /\ client.project_url = ctor.v.project_url
    /\ client.api_key = ctor.v.api_key

\* C9: new never fails and yields a client with exactly the values given and
\* no default headers; new_from_env returns Error::InvalidEnvironmentVariable
\* when SUPABASE_URL or SUPABASE_API_KEY is not set or not readable, and
\* otherwise a client whose project_url is SUPABASE_URL and whose api_key is
\* SUPABASE_API_KEY.
C9_Constructors ==
    /\ (pc = "done" /\ call.op = "new") =>
          /\ result.some /\ result.v.ok
          /\ result.v.v = [live |-> TRUE,
                           project_url |-> call.args.project_url,
                           api_key |-> call.args.api_key,
                           headers |-> EmptyHeaders]
          /\ client = result.v.v
    /\ (pc = "done" /\ call.op = "new_from_env") =>
          LET env == call.args.env
          IN  /\ result.some
              /\ IF env.SUPABASE_URL.is # "String"
                    \/ env.SUPABASE_API_KEY.is # "String"
                 THEN /\ ~result.v.ok
                      /\ result.v.e.kind = "InvalidEnvironmentVariable"
                      /\ ~client.live
                 ELSE /\ result.v.ok
                      /\ result.v.v.project_url = env.SUPABASE_URL.v
                      /\ result.v.v.api_key = env.SUPABASE_API_KEY.v
                      /\ client = result.v.v

\* new_from_env has failed on an environment that sets SUPABASE_URL and
\* leaves SUPABASE_API_KEY unreadable.
C9_Witness ==
    /\ pc = "done"
    /\ call.op = "new_from_env"
    /\ call.args.env.SUPABASE_URL.is = "String"
    /\ call.args.env.SUPABASE_API_KEY.is = "NotUnicode"
    /\ ~result.v.ok
    /\ result.v.e.kind = "InvalidEnvironmentVariable"

\* The payload create_bucket sends has the name supplied and, for id, the id
\* supplied or else the name.
C10_PayloadIdDefaultsToName ==
    (Issued /\ call.op = "create_bucket") =>
        /\ sent[1].body.t = "obj"
        /\ sent[1].body.o.name = JStr(call.args.name)
        /\ sent[1].body.o.id =
              JStr(IF call.args.id.some THEN call.args.id.v
                   ELSE call.args.name)

\* C10 as stated: create_bucket sends a payload whose id is the id supplied,
\* or the name when none is, and on success the string it returns is the name
\* supplied.
C10_ReturnsSuppliedName ==
    /\ C10_PayloadIdDefaultsToName
    /\ (Answered /\ call.op = "create_bucket" /\ result.v.ok) =>
          result.v.v = call.args.name

\* C10, amended: create_bucket sends a payload whose id is the id supplied,
\* or the name when none is, and on success the string it returns is the
\* name field of the response body.
C10_ReturnsResponseName ==
    /\ C10_PayloadIdDefaultsToName
    /\ (Answered /\ call.op = "create_bucket" /\ result.v.ok) =>
          /\ resp.body.t = "obj"
          /\ "name" \in DOMAIN resp.body.o
          /\ JStr(result.v.v) = resp.body.o.name

\* create_bucket with no id has sent the name as id and has returned the
\* name of the response body.
C10_Witness ==
    /\ Answered
    /\ call.op = "create_bucket"
    /\ ~call.args.id.some
    /\ sent[1].body.o.id = JStr(call.args.name)
    /\ result.v.ok
    /\ JStr(result.v.v) = resp.body.o.name

\* The operations that upload an object's bytes.
UploadOps == {"upload_file", "update_file", "replace_file",
              "upload_to_signed_url"}

\* What replace_file builds for the client and the arguments of the last call.
ReplaceFileOfCall ==
    replace_file_request(client, call.args.bucket_id, call.args.data,
                         call.args.path, call.args.options)

\* The call under way has issued the request replaced with the verb method
\* in place of PUT, or has failed as the building of replaced did, and has
\* made of its response what replace_file makes of it.
C11_Same(replaced, method) ==
    /\ replaced.ok <=> Len(sent) = 1
    /\ replaced.ok =>
          /\ sent[1].method = method
          /\ [sent[1] EXCEPT !.method = "PUT"] = replaced.v
          /\ sent[1].url =
                client.project_url \o STORAGE_V1
                   \o <<"/", "o", "b", "j", "e", "c", "t", "/">>
                   \o call.args.bucket_id \o <<"/">> \o call.args.path
    /\ (~replaced.ok) => result = Some(replaced)
    /\ Answered =>
          result.v = Response("replace_file", client, resp.status, resp.body)

\* C11: update_file and replace_file are identical: for the same client and
\* arguments they issue the same request (PUT to
\* {base}/storage/v1/object/{bucket}/{path}, same headers, same body), or
\* fail the same way building it, and map the same response to the same
\* result; upload_file differs from them only in the verb, POST.
C11_UpdateIsReplace ==
    /\ (call.op = "update_file" /\ pc \in {"awaiting", "reading", "done"}) =>
          C11_Same(ReplaceFileOfCall, "PUT")
    /\ (call.op = "upload_file" /\ pc \in {"awaiting", "reading", "done"}) =>
          C11_Same(ReplaceFileOfCall, "POST")

\* update_file has sent, with options that set three headers, the request
\* replace_file builds, and has returned the object of the response.
C11_Witness ==
    /\ Answered
    /\ call.op = "update_file"
    /\ call.args.options.some
    /\ call.args.options.v.cache_control.some
    /\ sent[1] = ReplaceFileOfCall.v
    /\ sent[1].method = "PUT"
    /\ result.v.ok

\* C12: upload_file, update_file, replace_file and upload_to_signed_url add
\* the header x-upsert: true exactly when FileOptions is present with
\* upsert = true; when options is None or upsert is false they add no
\* x-upsert header: the request has the default x-upsert of the client, if
\* any, and none otherwise.
C12_UpsertHeaderOnlyWhenTrue ==
    (Issued /\ call.op \in UploadOps) =>
        IF call.args.options.some /\ call.args.options.v.upsert
        THEN /\ X_UPSERT \in DOMAIN sent[1].headers
             /\ sent[1].headers[X_UPSERT] = <<"t", "r", "u", "e">>
        ELSE /\ X_UPSERT \in DOMAIN sent[1].headers
                  <=> X_UPSERT \in DOMAIN client.headers
             /\ X_UPSERT \in DOMAIN sent[1].headers =>
                  sent[1].headers[X_UPSERT] = client.headers[X_UPSERT]

\* An upload with options whose upsert is false, on a client with no default
\* x-upsert, has sent no x-upsert header.
C12_Witness ==
    /\ Issued
    /\ call.op = "upload_to_signed_url"
    /\ call.args.options.some
    /\ ~call.args.options.v.upsert
    /\ X_UPSERT \notin DOMAIN client.headers
    /\ X_UPSERT \notin DOMAIN sent[1].headers

\* C13: when FileOptions.cache_control is Some(d), the request of an upload
\* carries the header Cache-Control: max-age=<s>, s being d in whole seconds.
C13_CacheControlMaxAge ==
    (/\ Issued /\ call.op \in UploadOps
     /\ call.args.options.some
     /\ call.args.options.v.cache_control.some) =>
        /\ CACHE_CONTROL \in DOMAIN sent[1].headers
        /\ sent[1].headers[CACHE_CONTROL] =
              <<"m", "a", "x", "-", "a", "g", "e", "=">>
                 \o FormatU64(call.args.options.v.cache_control.v.secs)

\* C14: download_file issues GET
\* {base}/storage/v1/render/image/authenticated/{bucket}/{path} exactly when
\* options is Some with a transform, and GET
\* {base}/storage/v1/object/{bucket}/{path} otherwise, whatever the transform
\* holds and whatever the download flag is; it returns Ok with the bytes of
\* the response body exactly when the status is 2xx, and otherwise
\* StorageError with the status and the body decoded as UTF-8, lossily.
C14_DownloadFile ==
    /\ (Issued /\ call.op = "download_file") =>
          /\ sent[1].method = "GET"
          /\ sent[1].body = NoBody
          /\ sent[1].headers = download_file_headers(client).v
          /\ sent[1].url =
                client.project_url
                   \o <<"/", "s", "t", "o", "r", "a", "g", "e", "/", "v", "1",
                        "/">>
                   \o (IF call.args.options.some
                          /\ call.args.options.v.transform.some
                       THEN <<"r", "e", "n", "d", "e", "r", "/", "i", "m", "a",
                              "g", "e", "/", "a", "u", "t", "h", "e", "n", "t",
                              "i", "c", "a", "t", "e", "d">>
                       ELSE <<"o", "b", "j", "e", "c", "t">>)
                   \o <<"/">> \o call.args.bucket_id
                   \o <<"/">> \o call.args.path
    /\ (Answered /\ call.op = "download_file") =>
          /\ result.v.ok <=> (resp.status >= 200 /\ resp.status <= 299)
          /\ result.v.ok => result.v.v = resp.body
          /\ (~result.v.ok) =>
                IsStorageError(result.v, resp.status,
                               from_utf8_lossy(resp.body))

\* download_file with a transform has asked for the rendered image and has
\* got a non-2xx response whose body is no UTF-8: the error's message has the
\* replacement character for the byte that is none.
C14_Witness ==
    /\ Answered
    /\ call.op = "download_file"
    /\ call.args.options.some
    /\ call.args.options.v.transform.some
    /\ call.args.options.v.download = Some(TRUE)
    /\ resp.status = 404
    /\ resp.body = <<255, 104>>
    /\ result.v.e.message = <<"U+FFFD", "h">>

\* get_public_url has returned.
PublicUrlDone == pc = "done" /\ call.op = "get_public_url"

\* s begins with prefix.
StartsWith(s, prefix) ==
    Len(s) >= Len(prefix) /\ SubSeq(s, 1, Len(prefix)) = prefix

\* The strings between the occurrences of c in s.
RECURSIVE SplitOn(_, _)
SplitOn(s, c) ==
    IF \A i \in 1..Len(s) : s[i] # c THEN {s}
    ELSE LET i == CHOOSE k \in 1..Len(s) :
                     s[k] = c /\ \A m \in 1..(k - 1) : s[m] # c
         IN  {SubSeq(s, 1, i - 1)} \cup SplitOn(SubSeq(s, i + 1, Len(s)), c)

\* The part of a URL after its first "?", empty when it has none.
QueryOf(url) ==
    IF \A i \in 1..Len(url) : url[i] # "?" THEN <<>>
    ELSE LET i == CHOOSE k \in 1..Len(url) :
                     url[k] = "?" /\ \A m \in 1..(k - 1) : url[m] # "?"
         IN  SubSeq(url, i + 1, Len(url))

\* The name=value parameters of a URL's query string.
ParamsOf(url) == SplitOn(QueryOf(url), "&") \ {<<>>}

\* The names of the parameters of a URL's query string.
ParamNamesOf(url) ==
    {CHOOSE n \in SplitOn(p, "=") : StartsWith(p, n \o <<"=">>) :
        p \in ParamsOf(url)}

\* C15: get_public_url issues no request; its URL has the path segment
\* render/image exactly when the options carry a transform and the segment
\* object otherwise; with options None it returns exactly
\* {project_url}/storage/v1/object/public/{bucket_id}/{path} and never fails.
C15_PublicUrlIsLocal ==
    PublicUrlDone =>
        /\ sent = <<>> /\ resp = NoResp
        /\ (~call.args.options.some) =>
              result = Some(Ok(client.project_url
                  \o <<"/", "s", "t", "o", "r", "a", "g", "e", "/", "v", "1",
                       "/", "o", "b", "j", "e", "c", "t", "/", "p", "u", "b",
                       "l", "i", "c", "/">>
                  \o call.args.bucket_id \o <<"/">> \o call.args.path))
        /\ result.v.ok =>
              LET base == client.project_url
                            \o <<"/", "s", "t", "o", "r", "a", "g", "e", "/",
                                 "v", "1", "/">>
                  render == StartsWith(result.v.v,
                               base \o <<"r", "e", "n", "d", "e", "r", "/",
                                         "i", "m", "a", "g", "e", "/", "p",
                                         "u", "b", "l", "i", "c", "/">>)
                  object == StartsWith(result.v.v,
                               base \o <<"o", "b", "j", "e", "c", "t", "/",
                                         "p", "u", "b", "l", "i", "c", "/">>)
              IN  IF call.args.options.some
                     /\ call.args.options.v.transform.some
                  THEN render /\ ~object
                  ELSE object /\ ~render

\* get_public_url with options that carry no transform has returned a URL of
\* the object segment, without any request.
C15_Witness ==
    /\ PublicUrlDone
    /\ call.args.options.some
    /\ ~call.args.options.v.transform.some
    /\ call.args.path = PathSpace
    /\ result.v.ok
    /\ sent = <<>>
    /\ StartsWith(result.v.v,
                  <<"h", "t", "t", "p", ":", "/", "/", "a", "/", "s", "t", "o",
                    "r", "a", "g", "e", "/", "v", "1", "/", "o", "b", "j", "e",
                    "c", "t", "/", "p", "u", "b", "l", "i", "c", "/", "b", "1",
                    "/", "x", "%", "2", "0", "y">>)

\* C16: the query string get_public_url builds has height, width, format and
\* quality exactly when the transform's field is set, download=true exactly
\* when download is Some(true), and resize=<v> exactly when the transform's
\* resize is cover, contain or fill; any other resize is left out and the
\* call succeeds all the same.
C16_QueryParameters ==
    (PublicUrlDone /\ call.args.options.some
        /\ url_parse(client.project_url).ok) =>
        LET t == call.args.options.v.transform
            set(name, present) == IF present THEN {name} ELSE {}
            documented == {<<"c", "o", "v", "e", "r">>,
                           <<"c", "o", "n", "t", "a", "i", "n">>,
                           <<"f", "i", "l", "l">>}
            resize == t.some /\ t.v.resize.some /\ t.v.resize.v \in documented
            download == call.args.options.v.download = Some(TRUE)
        IN  /\ result.v.ok
            /\ ParamNamesOf(result.v.v) =
                  set(<<"h", "e", "i", "g", "h", "t">>,
                      t.some /\ t.v.height.some)
                  \cup set(<<"w", "i", "d", "t", "h">>,
                           t.some /\ t.v.width.some)
                  \cup set(<<"f", "o", "r", "m", "a", "t">>,
                           t.some /\ t.v.format.some)
                  \cup set(<<"q", "u", "a", "l", "i", "t", "y">>,
                           t.some /\ t.v.quality.some)
                  \cup set(<<"r", "e", "s", "i", "z", "e">>, resize)
                  \cup set(<<"d", "o", "w", "n", "l", "o", "a", "d">>, download)
            /\ resize =>
                  (<<"r", "e", "s", "i", "z", "e", "=">> \o t.v.resize.v)
                      \in ParamsOf(result.v.v)
            /\ download =>
                  <<"d", "o", "w", "n", "l", "o", "a", "d", "=", "t", "r", "u",
                    "e">> \in ParamsOf(result.v.v)

\* A call of a network operation is under way or just over.
InCall == call.op \in NetworkOps /\ pc \in {"awaiting", "reading", "done"}

\* The steps of a call issue at most one request, issue it when the call
\* starts, and issue none afterwards, whatever comes back.
OneRoundTrip ==
    /\ Len(sent') <= 1
    /\ (InCall /\ pc' # "idle") => sent' = sent
    /\ (sent' # sent /\ sent' # <<>>) => (pc = "idle" /\ InCall')

SendableBase == [u \in RequestUrls |-> IntoUrl(u \o STORAGE_V1).ok]
UrlSendable ==
    IF client.project_url \in RequestUrls
    THEN SendableBase[client.project_url]
    ELSE IntoUrl(client.project_url \o STORAGE_V1).ok

C18_CopyMovePayload ==
    (Issued /\ call.op \in {"copy_file", "move_file"}) =>
        LET a == call.args
            o == sent[1].body.o
        IN  /\ sent[1].body.t = "obj"
            /\ o.bucketId = JStr(a.from_bucket)
            /\ o.sourceKey = JStr(a.from_path)
            /\ o.destinationBucket =
                  JStr(IF a.to_bucket.some THEN a.to_bucket.v
                       ELSE a.from_bucket)
            /\ IF call.op = "copy_file"
               THEN /\ o.destinationKey =
                          JStr(IF a.to_path.some THEN a.to_path.v
                               ELSE a.from_path)
                    /\ o.copyMetadata = JBool(a.copy_metadata)
                    /\ DOMAIN o = {"bucketId", "sourceKey",
                                   "destinationBucket", "destinationKey",
                                   "copyMetadata"}
               ELSE /\ o.destinationKey = JStr(a.to_path)
                    /\ DOMAIN o = {"bucketId", "sourceKey",
                                   "destinationBucket", "destinationKey"}

\* copy_file with neither destination given has sent the source bucket and
\* the source key as destination.
C18_Witness ==
    /\ Issued
    /\ call.op = "copy_file"
    /\ ~call.args.to_bucket.some
    /\ ~call.args.to_path.some
    /\ call.args.copy_metadata
    /\ sent[1].body.o.destinationBucket = JStr(B1)
    /\ sent[1].body.o.destinationKey = JStr(PathX)
    /\ sent[1].body.o.copyMetadata = JBool(TRUE)

\* The service handles a delete_bucket and its status arrives: the status is
\* 2xx on a bucket the service holds (one that create_bucket made), which is
\* gone afterwards, and is not 2xx, with the service's error document as
\* body, on an id the service does not hold. The body is read then: the call
\* returns Ok(()) exactly when the status is 2xx, and StorageError with the
\* service's status and body, and no panic, when it is not.
C19_Step ==
    /\ (pc = "awaiting" /\ call.op = "delete_bucket" /\ pc' # "awaiting") =>
          /\ pc' = "reading"
          /\ result' = None
          /\ IF call.args.id \in DOMAIN server.buckets
             THEN /\ resp'.status >= 200 /\ resp'.status <= 299
                  /\ call.args.id \notin DOMAIN server'.buckets
             ELSE /\ ~(resp'.status >= 200 /\ resp'.status <= 299)
                  /\ server' = server
    /\ (pc = "reading" /\ call.op = "delete_bucket" /\ pc' # "reading") =>
          /\ pc' = "done"
          /\ server' = server
          /\ resp'.status = resp.status
          /\ resp'.body = resp.body.v
          /\ result'.some
          /\ result'.v.ok <=> (resp.status >= 200 /\ resp.status <= 299)
          /\ IF resp.status >= 200 /\ resp.status <= 299
             THEN result'.v = Ok(<<>>)
             ELSE IsStorageError(result'.v, resp.status, resp.body.v)

\* C19: delete_bucket on a bucket created earlier by create_bucket on the
\* same client returns Ok(()); a following delete_bucket on the id, which is
\* no bucket any more, returns StorageError with the service's non-2xx status
\* and raw body, and does not panic; delete_bucket returns Ok(()) exactly
\* when the status of the response is 2xx.
C19_CreateDeleteDelete == [][C19_Step]_vars

\* A bucket was created and deleted, and a second delete_bucket on its id has
\* returned the service's error.
C19_Witness ==
    /\ pc = "done"
    /\ call.op = "delete_bucket"
    /\ call.args.id \in server.deleted
    /\ call.args.id \notin DOMAIN server.buckets
    /\ resp.status = 404
    /\ IsStorageError(result.v, 404, ErrorDoc(404, BUCKET_NOT_FOUND))

\* C20: update_bucket(id, p, None, None) sends a request that carries p as
\* the public flag and nothing that overwrites or clears the bucket's allowed
\* MIME types and file size limit, so that get_bucket(id) afterwards returns
\* the bucket with public = p and the MIME types and size limit it had.
C20_UpdateKeepsWhatIsNone ==
    (Issued /\ call.op = "update_bucket") =>
        /\ sent[1].body.t = "obj"
        /\ sent[1].body.o.public = JBool(call.args.public)
        /\ (~call.args.allowed_mime_types.some) =>
              "allowed_mime_types" \notin DOMAIN sent[1].body.o
        /\ (~call.args.file_size_limit.some) =>
              "file_size_limit" \notin DOMAIN sent[1].body.o

\* The call under way is copy_file(B1, None, PathX, Some(PathY), true).
CopyXToY ==
    /\ call.op = "copy_file"
    /\ call.args = [from_bucket |-> B1, to_bucket |-> None,
                    from_path |-> PathX, to_path |-> Some(PathY),
                    copy_metadata |-> TRUE]

\* The call under way is a download_file of the object itself (no image is
\* asked for) at B1/x.
DownloadX ==
    /\ call.op = "download_file"
    /\ call.args.bucket_id = B1
    /\ call.args.path = PathX
    /\ ~(call.args.options.some /\ call.args.options.v.transform.some)

\* The latest write of an object in the service was the copy of B1/x to
\* B1/y with its metadata, the one copy_file(B1, None, x, Some(y), true)
\* asks for.
CopiedXToY ==
    /\ server.copied # <<>>
    /\ server.copied[1].src = ObjectKey(B1, PathX)
    /\ server.copied[1].dst = ObjectKey(B1, PathY)
    /\ server.copied[1].copyMetadata = JBool(TRUE)

\* The service handles the request of a call and its status arrives. On the
\* copy of an object it holds, it answers with the key of the destination
\* in the source's bucket and holds at the source what it held, and the same
\* at the destination; on a download_file of a plain object it holds, it
\* answers 2xx with the bytes it holds and goes on holding; on a
\* download_file of B1/x after the copy of B1/x to B1/y, it answers 2xx with
\* the bytes B1/x had before the copy. The body is read then: copy_file
\* returns the key of the answer, download_file the bytes of a 2xx answer,
\* and the service holds what it held.
C21_Step ==
    /\ (pc = "awaiting" /\ pc' # "awaiting") =>
          /\ pc' = "reading"
          /\ (CopyXToY /\ ObjectKey(B1, PathX) \in DOMAIN server.objects) =>
                /\ resp'.body.some
                /\ resp'.body.v.t = "obj"
                /\ resp'.body.v.o.Key = JStr(ObjectKey(B1, PathY))
                /\ ObjectKey(B1, PathX) \in DOMAIN server'.objects
                /\ server'.objects[ObjectKey(B1, PathX)] =
                      server.objects[ObjectKey(B1, PathX)]
                /\ server'.objects[ObjectKey(B1, PathY)] =
                      server.objects[ObjectKey(B1, PathX)]
                /\ CopiedXToY'
                /\ server'.copied[1].before = server.objects
          /\ (DownloadX /\ CopiedXToY) =>
                /\ resp'.status >= 200 /\ resp'.status <= 299
                /\ resp'.body =
                      Some(server.copied[1].before[ObjectKey(B1, PathX)])
                /\ server' = server
          /\ (/\ call.op = "download_file"
              /\ ~(call.args.options.some /\ call.args.options.v.transform.some)
              /\ ObjectKey(call.args.bucket_id, call.args.path)
                    \in DOMAIN server.objects) =>
                /\ resp'.status >= 200 /\ resp'.status <= 299
                /\ resp'.body =
                      Some(server.objects[ObjectKey(call.args.bucket_id,
                                                    call.args.path)])
                /\ server' = server
    /\ (pc = "reading" /\ pc' # "reading") =>
          /\ pc' = "done"
          /\ server' = server
          /\ (/\ call.op = "copy_file"
              /\ resp.body.v.t = "obj"
              /\ DOMAIN resp.body.v.o = {"Id", "Key"}
              /\ resp.body.v.o.Key.t = "str") =>
                result' = Some(Ok(resp.body.v.o.Key.s))
          /\ (/\ call.op = "download_file"
              /\ resp.status >= 200 /\ resp.status <= 299) =>
                result' = Some(Ok(resp.body.v))

\* C21: copy_file(B, None, x, Some(y), true) on an object the service holds
\* at B/x returns the key "B/y", and the source is intact after the copy:
\* download_file(B, x) succeeds with the bytes the object had before it.
C21_CopyKeepsSource == [][C21_Step]_vars

\* copy_file(B1, None, x, Some(y), true) was answered, no object was written
\* since, and download_file(B1, x) has returned the bytes B1/x had before
\* the copy, which B1/y holds too.
C21_Witness ==
    /\ pc = "done"
    /\ DownloadX
    /\ CopiedXToY
    /\ ObjectKey(B1, PathX) \in DOMAIN server.copied[1].before
    /\ result = Some(Ok(server.copied[1].before[ObjectKey(B1, PathX)]))
    /\ server.objects[ObjectKey(B1, PathX)] =
          server.copied[1].before[ObjectKey(B1, PathX)]
    /\ server.objects[ObjectKey(B1, PathY)] =
          server.copied[1].before[ObjectKey(B1, PathX)]

\* The service handles a move_file within one bucket and its status
\* arrives, the service holding the source and nothing at the destination:
\* it answers with the confirmation message, and the object is at the
\* destination and no more at the source. When the move is the reverse of
\* the move before it, the service holds afterwards exactly what it held
\* before the two. The body is read then: move_file returns the message of
\* the answer, and the service holds what it held.
C22_Step ==
    LET a == call.args
        src == ObjectKey(a.from_bucket, a.from_path)
        dst == ObjectKey(a.from_bucket, a.to_path)
    IN  /\ (/\ pc = "awaiting" /\ pc' # "awaiting"
             /\ call.op = "move_file"
             /\ ~a.to_bucket.some
             /\ src \in DOMAIN server.objects
             /\ dst \notin DOMAIN server.objects) =>
                /\ pc' = "reading"
                /\ resp'.body = Some(JObj([message |-> JStr(SUCCESSFULLY_MOVED)]))
                /\ dst \in DOMAIN server'.objects
                /\ src \notin DOMAIN server'.objects
                /\ server'.objects[dst] = server.objects[src]
                /\ (/\ server.moved # <<>>
                    /\ server.moved[Len(server.moved)].src = dst
                    /\ server.moved[Len(server.moved)].dst = src) =>
                      server'.objects = server.moved[Len(server.moved)].before
        /\ (/\ pc = "reading" /\ pc' # "reading"
             /\ call.op = "move_file"
             /\ resp.body.v.t = "obj"
             /\ DOMAIN resp.body.v.o = {"message"}
             /\ resp.body.v.o.message.t = "str") =>
                /\ pc' = "done"
                /\ server' = server
                /\ result' = Some(Ok(resp.body.v.o.message.s))

\* C22: for an object at key x and a free key y of a bucket B,
\* move_file(B, None, x, y) followed by move_file(B, None, y, x) both return
\* the confirmation message and leave the object at x and no object at y.
C22_MoveRoundTrip == [][C22_Step]_vars

\* move_file(B1, None, x, y) and then move_file(B1, None, y, x) were
\* answered, the second has returned the confirmation message, and the
\* object is at x again with nothing at y.
C22_Witness ==
    /\ pc = "done"
    /\ call.op = "move_file"
    /\ call.args.from_path = PathY
    /\ call.args.to_path = PathX
    /\ result = Some(Ok(SUCCESSFULLY_MOVED))
    /\ Len(server.moved) = 2
    /\ server.moved[1].src = ObjectKey(B1, PathX)
    /\ server.moved[1].dst = ObjectKey(B1, PathY)
    /\ server.moved[2].src = ObjectKey(B1, PathY)
    /\ server.moved[2].dst = ObjectKey(B1, PathX)
    /\ server.objects = server.moved[1].before
    /\ ObjectKey(B1, PathX) \in DOMAIN server.objects
    /\ ObjectKey(B1, PathY) \notin DOMAIN server.objects

\* The characters of a token of a media type (RFC 6838).
MimeTokenChars ==
    {ASCII[i] : i \in 17..26} \cup {ASCII[i] : i \in 34..59}
        \cup {ASCII[i] : i \in 66..91}
        \cup {"!", "#", "$", "&", "^", "_", ".", "+", "-"}

\* s is type "/" subtype, both of them non-empty tokens.
WellFormedMime(s) ==
    \E i \in 1..Len(s) :
        /\ s[i] = "/"
        /\ i > 1 /\ i < Len(s)
        /\ \A k \in (1..Len(s)) \ {i} : s[k] \in MimeTokenChars

\* A string form of a MimeType has been computed.
MimeStringDone ==
    pc = "done" /\ call.op \in {"as_str", "to_string", "String::from"}

\* C23, as stated: the string form of every MimeType, every Custom(s)
\* included, is a non-empty, well-formed type/subtype string, and that of
\* Custom(s) is s.
C23_StringFormWellFormed ==
    MimeStringDone =>
        /\ result.v # <<>>
        /\ WellFormedMime(result.v)
        /\ call.args.mime.variant = "Custom" => result.v = call.args.mime.s

\* C23: as_str, Display and String::from agree; the string form of every
\* variant beside Custom is a non-empty, well-formed type/subtype string;
\* that of Custom(s) is exactly s, whatever s is.
C23_NamedWellFormedCustomVerbatim ==
    MimeStringDone =>
        /\ result.v = as_str(call.args.mime)
        /\ IF call.args.mime.variant = "Custom"
           THEN result.v = call.args.mime.s
           ELSE result.v # <<>> /\ WellFormedMime(result.v)

\* The Display form of the Custom("") of the tests is the empty string.
C23_Witness ==
    /\ MimeStringDone
    /\ call.op = "to_string"
    /\ call.args.mime = [variant |-> "Custom", s |-> <<>>]
    /\ result = Some(<<>>)

\* The field of the options of the list_files under way, None when there
\* are no options.
ListOption(field) ==
    IF call.args.options.some THEN call.args.options.v[field] ELSE None

\* C24: list_files sends a POST whose JSON payload has prefix equal to the
\* path, or the empty string when the path is None; limit, offset, sortBy
\* and search are the values of the FileSearchOptions, and are no key of the
\* payload when they are None or when the options are None; the sequence the
\* call returns is the list of the response, its order and length unchanged
\* (the empty sequence for the empty list).
C24_ListFiles ==
    /\ (Issued /\ call.op = "list_files") =>
          LET a == call.args
              o == sent[1].body.o
          IN  /\ sent[1].method = "POST"
              /\ sent[1].body.t = "obj"
              /\ DOMAIN o \subseteq
                    {"prefix", "limit", "offset", "sortBy", "search"}
              /\ o.prefix = JStr(IF a.path.some THEN a.path.v ELSE <<>>)
              /\ IF ListOption("limit").some
                 THEN o.limit = JNum(ListOption("limit").v)
                 ELSE "limit" \notin DOMAIN o
              /\ IF ListOption("offset").some
                 THEN o.offset = JNum(ListOption("offset").v)
                 ELSE "offset" \notin DOMAIN o
              /\ IF ListOption("search").some
                 THEN o.search = JStr(ListOption("search").v)
                 ELSE "search" \notin DOMAIN o
              /\ IF ListOption("sort_by").some
                 THEN o.sortBy =
                        JObj([column |->
                                JStr(snake_case(ListOption("sort_by").v.column)),
                              order |->
                                JStr(snake_case(ListOption("sort_by").v.order))])
                 ELSE "sortBy" \notin DOMAIN o
    /\ (Answered /\ call.op = "list_files" /\ result.v.ok) =>
          /\ resp.body.t = "arr"
          /\ Len(result.v.v) = Len(resp.body.a)
          /\ \A i \in 1..Len(resp.body.a) :
                /\ result.v.v[i] = Deserialized(FileObjectT, resp.body.a[i])
                /\ resp.body.a[i].t = "obj" =>
                      result.v.v[i].name = resp.body.a[i].o.name.s

\* list_files with no path and no options has sent the prefix "" alone and
\* has returned the two files of the response in the order of the response.
C24_Witness ==
    /\ Answered
    /\ call.op = "list_files"
    /\ ~call.args.path.some
    /\ ~call.args.options.some
    /\ sent[1].body = JObj([prefix |-> JStr(<<>>)])
    /\ result.v.ok
    /\ Len(result.v.v) = 2
    /\ result.v.v[1].name = PathY
    /\ result.v.v[2].name = PathX

\* The URL create_signed_url and create_multiple_signed_urls make of a
\* signedURL of the response.
SignedUrlOf(doc) ==
    client.project_url \o <<"/", "s", "t", "o", "r", "a", "g", "e", "/", "v", "1">>
        \o doc.o.signedURL.s

\* C25: create_signed_url returns project_url + "/storage/v1" + signedURL,
\* the signedURL being the relative path of the response;
\* create_multiple_signed_urls returns one such URL for every entry of the
\* response, in the order of the response and as many as it has.
C25_SignedUrls ==
    /\ (Answered /\ call.op = "create_signed_url") =>
          /\ result.v.ok <=>
                (/\ resp.body.t = "obj"
                 /\ "signedURL" \in DOMAIN resp.body.o
                 /\ resp.body.o.signedURL.t = "str")
          /\ result.v.ok => result.v.v = SignedUrlOf(resp.body)
    /\ (Answered /\ call.op = "create_multiple_signed_urls" /\ result.v.ok) =>
          /\ resp.body.t = "arr"
          /\ Len(result.v.v) = Len(resp.body.a)
          /\ \A i \in 1..Len(resp.body.a) :
                result.v.v[i] = SignedUrlOf(resp.body.a[i])

\* create_multiple_signed_urls has returned the two URLs of a response of
\* two entries, in their order.
C25_Witness ==
    /\ Answered
    /\ call.op = "create_multiple_signed_urls"
    /\ client.project_url = <<"h", "t", "t", "p", ":", "/", "/", "a">>
    /\ result = Some(Ok(<<
          <<"h", "t", "t", "p", ":", "/", "/", "a", "/", "s", "t", "o", "r", "a", "g", "e", "/", "v", "1", "/", "s">>,
          <<"h", "t", "t", "p", ":", "/", "/", "a", "/", "s", "t", "o", "r", "a", "g", "e", "/", "v", "1", "/", "r">> >>))

\* The call of every caller is where it would be had it run alone on the
\* client: the request it sent is the request the call makes of the client
\* and its arguments, and its result is the error that call ends with when
\* it sends nothing, the transport's error, or what the operation makes of
\* the response to its own request.
C26_AsAlone ==
    \A t \in TaskIds :
        LET k == tasks[t]
            alone == RequestOf(k.call, client)
        IN  /\ k.pc = "built" =>
                  TaskHeadersOf(k.call, client) = Ok(k.headers.v)
            /\ k.pc \in {"awaiting", "reading"} =>
                  alone.ok /\ k.sent = <<alone.v>> /\ k.result = None
            /\ k.pc = "done" =>
                  IF k.resp.t = "Response"
                  THEN /\ alone.ok /\ k.sent = <<alone.v>>
                       /\ k.result =
                            Some(Response(k.call.op, client, k.resp.status,
                                          k.resp.body))
                  ELSE IF k.resp.t \in {"SendError", "BodyError"}
                  THEN /\ alone.ok /\ k.sent = <<alone.v>>
                       /\ k.result = Some(Err(RequestError))
                  ELSE /\ ~alone.ok /\ k.sent = <<>>
                       /\ k.result = Some(alone)

\* A step of a call leaves the client and the calls of the other callers
\* as they are.
C26_Step ==
    (tasks' # tasks) =>
        /\ client' = client
        /\ \E t \in TaskIds : \A u \in TaskIds \ {t} : tasks'[u] = tasks[u]

\* C26: in every interleaving of the calls made concurrently on one
\* StorageClient, the request of each call (method, URL, headers, body) and
\* its result are those of the call run alone; no call observes or changes
\* what another call wrote: the operations read the client and build their
\* headers on a copy of their own.
C26_ConcurrentCallsAreIsolated == []C26_AsAlone /\ [][C26_Step]_vars

\* On a client with a default header, an upload_file that set x-upsert has
\* its response while a create_bucket started before it ended is awaiting
\* its own, with the default header and without x-upsert.
C26_Witness ==
    /\ client.live
    /\ "x-custom" \in DOMAIN client.headers
    /\ tasks[1].pc = "done"
    /\ tasks[1].call.op = "upload_file"
    /\ tasks[1].resp.t = "Response"
    /\ X_UPSERT \in DOMAIN tasks[1].sent[1].headers
    /\ tasks[2].pc = "awaiting"
    /\ tasks[2].call.op = "create_bucket"
    /\ X_UPSERT \notin DOMAIN tasks[2].sent[1].headers
    /\ "x-custom" \in DOMAIN tasks[2].sent[1].headers

\* The operations C27 names, and the method and the resource path of the
\* one under way.
C27_Ops ==
    {"create_bucket", "delete_bucket", "get_bucket", "list_buckets",
     "update_bucket", "empty_bucket", "create_signed_upload_url",
     "upload_to_signed_url"}

C27_Route ==
    LET a == call.args
        bucket == <<"/", "b", "u", "c", "k", "e", "t">>
        sign == <<"/", "o", "b", "j", "e", "c", "t", "/", "u", "p", "l", "o", "a", "d", "/", "s", "i", "g", "n", "/">>
    IN  CASE call.op = "create_bucket" -> [method |-> "POST", path |-> bucket]
          [] call.op = "delete_bucket" ->
                [method |-> "DELETE", path |-> bucket \o <<"/">> \o a.id]
          [] call.op = "get_bucket" ->
                [method |-> "GET", path |-> bucket \o <<"/">> \o a.bucket_id]
          [] call.op = "list_buckets" -> [method |-> "GET", path |-> bucket]
          [] call.op = "update_bucket" ->
                [method |-> "PUT", path |-> bucket \o <<"/">> \o a.id]
          [] call.op = "empty_bucket" ->
                [method |-> "POST",
                 path |-> bucket \o <<"/">> \o a.id
                            \o <<"/", "e", "m", "p", "t", "y">>]
          [] call.op = "create_signed_upload_url" ->
                [method |-> "POST",
                 path |-> sign \o a.bucket_id \o <<"/">> \o a.path]
          [] call.op = "upload_to_signed_url" ->
                [method |-> "PUT",
                 path |-> sign \o a.bucket_id \o <<"/">> \o a.path
                            \o <<"?", "t", "o", "k", "e", "n", "=">> \o a.token]

\* C27: the URL of every request is project_url, "/storage/v1" and the path
\* of the resource; create_bucket is POST /bucket, delete_bucket DELETE
\* /bucket/{id}, get_bucket GET /bucket/{id}, list_buckets GET /bucket,
\* update_bucket PUT /bucket/{id}, empty_bucket POST /bucket/{id}/empty,
\* create_signed_upload_url POST /object/upload/sign/{bucket}/{path} and
\* upload_to_signed_url PUT /object/upload/sign/{bucket}/{path}?token={token}
\* with the token of the caller.
C27_UrlsAndMethods ==
    Issued =>
        /\ StartsWith(sent[1].url,
                      client.project_url
                         \o <<"/", "s", "t", "o", "r", "a", "g", "e", "/", "v", "1", "/">>)
        /\ call.op \in C27_Ops =>
              /\ sent[1].method = C27_Route.method
              /\ sent[1].url =
                    client.project_url
                       \o <<"/", "s", "t", "o", "r", "a", "g", "e", "/", "v", "1">>
                       \o C27_Route.path

\* upload_to_signed_url has put to the signed path of b1/x with the token tk
\* of its caller as the query.
C27_Witness ==
    /\ Issued
    /\ call.op = "upload_to_signed_url"
    /\ sent[1].method = "PUT"
    /\ sent[1].url =
          <<"h", "t", "t", "p", ":", "/", "/", "a", "/", "s", "t", "o", "r", "a", "g", "e", "/", "v", "1", "/", "o", "b", "j", "e", "c", "t", "/", "u", "p", "l", "o", "a", "d", "/", "s", "i", "g", "n", "/", "b", "1", "/", "x", "?", "t", "o", "k", "e", "n", "=", "t", "k">>

\* The last call has to build a header from a value that is no legal header
\* value (one that holds a control character other than the tab): from the
\* api_key, which every operation puts into Authorization
\* unless a default one is installed and create_bucket, update_bucket and
\* empty_bucket put into apikey, or from the content_type of its FileOptions.
BuildsIllegalHeader ==
    \/ /\ \/ AUTHORIZATION \notin DOMAIN client.headers
          \/ call.op \in {"create_bucket", "update_bucket", "empty_bucket"}
       /\ \E i \in 1..Len(client.api_key) :
            client.api_key[i] \in Controls \ {"\t"}
    \/ /\ call.op \in UploadOps
       /\ call.args.options.some
       /\ call.args.options.v.content_type.some
       /\ \E i \in 1..Len(call.args.options.v.content_type.v) :
            call.args.options.v.content_type.v[i] \in Controls \ {"\t"}

\* C28: an operation that has to build a header from a value that is no
\* legal header value (the api_key, the content_type of the FileOptions)
\* returns Error::InvalidHeaderValue and issues no request, and no other
\* call returns that error; a transport failure is returned as
\* Error::RequestError; neither failure is reported as StorageError or
\* turned into Ok.
C28_FirstFailureSurfaced ==
    (pc = "done" /\ call.op \in NetworkOps) =>
        /\ BuildsIllegalHeader =>
              result = Some(Err(InvalidHeaderValue)) /\ sent = <<>>
        /\ result = Some(Err(InvalidHeaderValue)) => BuildsIllegalHeader
        /\ resp.t \in {"SendError", "BodyError"} =>
              result = Some(Err(RequestError)) /\ Len(sent) = 1

\* upload_file with a content type that holds a newline, on a client whose
\* api_key is legal, has returned InvalidHeaderValue and has sent nothing.
C28_Witness ==
    /\ pc = "done"
    /\ call.op = "upload_file"
    /\ IsLegalHeaderValue(client.api_key)
    /\ call.args.options.some
    /\ call.args.options.v.content_type = Some(<<"a", "\n">>)
    /\ result = Some(Err(InvalidHeaderValue))
    /\ sent = <<>>
    /\ resp = NoResp

\* C29: for every operation that parses a JSON response (every network
\* operation but delete_bucket and download_file) the body alone decides
\* between Ok and Err: the response with the same body and another status
\* yields Ok with the same value, or StorageError with the same message and
\* its own status; delete_bucket and download_file decide by the status
\* alone, whatever the body is.
C29_BodyAloneDecides ==
    Answered =>
        IF call.op \in {"delete_bucket", "download_file"}
        THEN /\ result.v.ok <=> (resp.status >= 200 /\ resp.status <= 299)
             /\ \A other \in IF call.op = "download_file" THEN ByteBodies
                             ELSE TextBodies :
                    Response(call.op, client, resp.status, other).ok
                        = result.v.ok
        ELSE \A other \in Statuses :
                LET r == Response(call.op, client, other, resp.body)
                IN  IF result.v.ok
                    THEN r = result.v
                    ELSE /\ IsStorageError(result.v, resp.status, resp.body)
                         /\ IsStorageError(r, other, resp.body)

\* move_file has returned the message of a response with status 404: what
\* it returns for the same body with status 200.
C29_Witness ==
    /\ Answered
    /\ call.op = "move_file"
    /\ resp.status = 404
    /\ result.v.ok
    /\ result.v = Response("move_file", client, 200, resp.body)

\* The places of a query where a parameter that starts with "token=" starts.
TokenStarts(q) ==
    {j \in 1..Len(q) :
        /\ j + 5 <= Len(q)
        /\ SubSeq(q, j, j + 5) = <<"t", "o", "k", "e", "n", "=">>
        /\ (j = 1 \/ q[j - 1] = "&")}

\* The value of the token parameter that starts at place j of a query: what
\* follows its "=" up to the next "&" or the end.
TokenValueAt(q, j) ==
    LET ends == {e \in (j + 6)..Len(q) : q[e] = "&"}
        stop == IF ends = {} THEN Len(q) + 1
                ELSE CHOOSE e \in ends : \A f \in ends : e <= f
    IN  SubSeq(q, j + 6, stop - 1)

\* C30: extract_token inverts the format of the signed upload URL: of
\* path + "?token=" + token, with no "?" in the path and no "?" or "&" in the
\* token, it returns the token; of a URL with no "?", or whose query has no
\* parameter that starts with "token=", it returns the invalid-token error;
\* of a URL with several token parameters it returns the first.
C30_ExtractToken ==
    (pc = "done" /\ call.op = "extract_token") =>
        LET url == call.args.url
            q == QueryOf(url)
            starts == TokenStarts(q)
        IN  /\ \A i \in 1..Len(url) :
                  (/\ i + 6 <= Len(url)
                   /\ SubSeq(url, i, i + 6) = <<"?", "t", "o", "k", "e", "n", "=">>
                   /\ \A m \in 1..(i - 1) : url[m] # "?"
                   /\ \A m \in (i + 7)..Len(url) : url[m] \notin {"?", "&"}) =>
                      result.v = Ok(SubSeq(url, i + 7, Len(url)))
            /\ ((\A m \in 1..Len(url) : url[m] # "?") \/ starts = {}) =>
                  /\ ~result.v.ok
                  /\ result.v.e.kind = "InvalidToken"
            /\ ((\A m \in 1..Len(q) : q[m] # "?") /\ Cardinality(starts) >= 2) =>
                  result.v =
                      Ok(TokenValueAt(q, CHOOSE j \in starts :
                                            \A k \in starts : j <= k))

\* extract_token has returned the first token of "?token=a&token=b".
C30_Witness ==
    /\ pc = "done"
    /\ call.op = "extract_token"
    /\ call.args.url =
          <<"?", "t", "o", "k", "e", "n", "=", "a", "&", "t", "o", "k", "e", "n", "=", "b">>
    /\ result = Some(Ok(<<"a">>))

============================================================================
